---- MODULE Spec2Model ----
(***************************************************************************)
(* A model of the furniture production system: the reference store         *)
(* (app/models.py), the JSON API and the HTML forms (app/main.py) and the  *)
(* raw-material calculator (app/services.py).                              *)
(*                                                                         *)
(* Numbers are modelled by what the code computes with:                    *)
(*   - decimal.Decimal: sign, coefficient and exponent, every arithmetic   *)
(*     result rounded to the context precision (ROUND_HALF_EVEN);          *)
(*   - float: an IEEE-754 binary64, sign, 53-bit significand and exponent, *)
(*     every result rounded to nearest, ties to even;                      *)
(*   - int: unbounded.                                                     *)
(* Coefficients and significands are longer than a machine word, so they   *)
(* are kept as digit sequences (BigNat): least significant digit first, no *)
(* high zero digits, zero is <<>>.                                         *)
(***************************************************************************)
EXTENDS Integers, Sequences, FiniteSets, TLC

VARIABLES
    product_type,       \* table product_type: rows [id, name, coefficient]
    material_type,      \* table material_type: rows [id, name, loss_percent]
    workshop_type,      \* table workshop_type: rows [id, name]
    workshop,           \* table workshop: rows [id, name, workshop_type_id, workers_required]
    product,            \* table product: rows [id, name, article, product_type_id, material_type_id, min_partner_price]
    product_workshop,   \* table product_workshop: rows [product_id, workshop_id, production_time_hours]
    product_id_seq,     \* last value drawn from the product.id sequence
    workshop_id_seq,    \* last value drawn from the workshop.id sequence
    resp                \* the outcome of the last request or call

vars == <<product_type, material_type, workshop_type, workshop, product,
          product_workshop, product_id_seq, workshop_id_seq, resp>>

-----------------------------------------------------------------------------
(* BigNat: digit sequences in a base, least significant digit first.       *)

\* n without its high zero digits.
Trim(n) ==
    IF \A i \in 1..Len(n) : n[i] = 0 THEN <<>>
    ELSE SubSeq(n, 1, CHOOSE i \in 1..Len(n) :
                          n[i] # 0 /\ \A j \in (i + 1)..Len(n) : n[j] = 0)

Digit(n, i) == IF i >= 1 /\ i <= Len(n) THEN n[i] ELSE 0

Zeros(k) == [i \in 1..k |-> 0]

\* n * base^k
ShiftUp(n, k) == IF n = <<>> THEN <<>> ELSE Zeros(k) \o n

RECURSIVE FromInt(_, _)
FromInt(v, base) ==
    IF v = 0 THEN <<>> ELSE <<v % base>> \o FromInt(v \div base, base)

RECURSIVE ToInt(_, _)
ToInt(n, base) ==
    IF n = <<>> THEN 0 ELSE n[1] + base * ToInt(Tail(n), base)

\* The carry into digit i of a + b: some lower digit pair overflows the base
\* and every pair between it and i passes a carry on.
CarryInto(a, b, base, i) ==
    \E j \in 1..(i - 1) :
        /\ Digit(a, j) + Digit(b, j) >= base
        /\ \A k \in (j + 1)..(i - 1) : Digit(a, k) + Digit(b, k) = base - 1

AddDigits(a, b, base) ==
    [i \in 1..((IF Len(a) > Len(b) THEN Len(a) ELSE Len(b)) + 1) |->
        (Digit(a, i) + Digit(b, i) + (IF CarryInto(a, b, base, i) THEN 1 ELSE 0)) % base]

BigAdd(a, b, base) == Trim(AddDigits(a, b, base))

\* The borrow out of digit i - 1 of a - b: some lower digit of a is smaller
\* than b's and every pair between it and i is equal or borrows itself.
BorrowInto(a, b, i) ==
    \E j \in 1..(i - 1) :
        /\ Digit(a, j) < Digit(b, j)
        /\ \A k \in (j + 1)..(i - 1) : Digit(a, k) <= Digit(b, k)

SubDigits(a, b, base) ==
    [i \in 1..Len(a) |->
        (Digit(a, i) - Digit(b, i) - (IF BorrowInto(a, b, i) THEN 1 ELSE 0) + base) % base]

\* a - b for a >= b
BigSub(a, b, base) == Trim(SubDigits(a, b, base))

\* -1, 0, 1 as a < b, a = b, a > b: the longer is the larger, and of two of
\* one length the highest differing digit decides.
BigCmp(a, b) ==
    IF Len(a) < Len(b) THEN -1
    ELSE IF Len(a) > Len(b) THEN 1
    ELSE IF \A i \in 1..Len(a) : a[i] = b[i] THEN 0
    ELSE LET i == CHOOSE k \in 1..Len(a) :
                      a[k] # b[k] /\ \A j \in (k + 1)..Len(a) : a[j] = b[j]
         IN  IF a[i] < b[i] THEN -1 ELSE 1

RECURSIVE ColSum(_, _, _, _)
ColSum(a, b, k, i) ==
    IF i > Len(a) THEN 0
    ELSE Digit(a, i) * Digit(b, k + 1 - i) + ColSum(a, b, k, i + 1)

RECURSIVE MulDigits(_, _, _, _, _)
MulDigits(a, b, base, k, carry) ==
    IF k > Len(a) + Len(b)
    THEN (IF carry = 0 THEN <<>> ELSE <<carry>>)
    ELSE LET t == ColSum(a, b, k, 1) + carry
         IN  <<t % base>> \o MulDigits(a, b, base, k + 1, t \div base)

BigMul(a, b, base) == Trim(MulDigits(a, b, base, 1, 0))

AnyNonZero(n, lo, hi) == \E i \in lo..hi : Digit(n, i) # 0

\* n rounded to at most prec significant digits, ties to even: [m, shift] with
\* the rounded value m * base^shift. sticky: a non-zero remainder lies below n.
RoundHalfEven(n, prec, base, sticky) ==
    IF Len(n) <= prec THEN [m |-> n, shift |-> 0]
    ELSE LET d    == Len(n) - prec
             kept == SubSeq(n, d + 1, Len(n))
             g    == n[d]
             rest == sticky \/ AnyNonZero(n, 1, d - 1)
             up   == \/ 2 * g > base
                     \/ 2 * g = base /\ (rest \/ kept[1] % 2 = 1)
             m    == IF up THEN BigAdd(kept, <<1>>, base) ELSE kept
         IN  IF Len(m) > prec
             THEN [m |-> Tail(m), shift |-> d + 1]
             ELSE [m |-> m, shift |-> d]

-----------------------------------------------------------------------------
(* decimal.Decimal, as app/services.py uses it.                            *)
(* A Decimal is [kind, neg, coef, exp]: kind "fin" is (-1)^neg * coef *    *)
(* 10^exp with coef a base-10 BigNat; kind "inf" and "nan" are the special *)
(* values. Text is a sequence of one-character strings.                    *)

\* The precision of Python's default decimal context (getcontext().prec).
Prec == 28

DigitChars == <<"0", "1", "2", "3", "4", "5", "6", "7", "8", "9">>

DigitVal(c) == (CHOOSE d \in 1..10 : DigitChars[d] = c) - 1

AllDigits(s) == \A i \in 1..Len(s) : \E d \in 1..10 : DigitChars[d] = s[i]

\* The first index of s holding a character of cs, 0 when none does.
IndexOf(s, cs) ==
    IF \E i \in 1..Len(s) : s[i] \in cs
    THEN CHOOSE i \in 1..Len(s) : s[i] \in cs /\ \A j \in 1..(i - 1) : s[j] \notin cs
    ELSE 0

\* Decimal digits as written (most significant first) to a BigNat.
DigitsToNat(s) == Trim([i \in 1..Len(s) |-> DigitVal(s[Len(s) + 1 - i])])

LowerChar(c) ==
    CASE c = "N" -> "n" [] c = "A" -> "a" [] c = "I" -> "i" [] c = "F" -> "f"
      [] c = "T" -> "t" [] c = "Y" -> "y" [] c = "E" -> "e" [] OTHER -> c

Lower(s) == [i \in 1..Len(s) |-> LowerChar(s[i])]

DecFin(neg, coef, exp) == [kind |-> "fin", neg |-> neg, coef |-> coef, exp |-> exp]

DecInf(neg) == [kind |-> "inf", neg |-> neg, coef |-> <<>>, exp |-> 0]

DecNaN == [kind |-> "nan", neg |-> FALSE, coef |-> <<>>, exp |-> 0]

\* Decimal(text): [ok, d]; ok is FALSE where Decimal raises InvalidOperation.
DecimalFromText(s) ==
    LET signed == s # <<>> /\ s[1] \in {"-", "+"}
        neg    == s # <<>> /\ s[1] = "-"
        body   == IF signed THEN Tail(s) ELSE s
        ePos   == IndexOf(body, {"e", "E"})
        mant   == IF ePos = 0 THEN body ELSE SubSeq(body, 1, ePos - 1)
        expS   == IF ePos = 0 THEN <<>> ELSE SubSeq(body, ePos + 1, Len(body))
        expNeg == expS # <<>> /\ expS[1] = "-"
        expD   == IF expS # <<>> /\ expS[1] \in {"-", "+"} THEN Tail(expS) ELSE expS
        dot    == IndexOf(mant, {"."})
        intS   == IF dot = 0 THEN mant ELSE SubSeq(mant, 1, dot - 1)
        fracS  == IF dot = 0 THEN <<>> ELSE SubSeq(mant, dot + 1, Len(mant))
        numOk  == /\ AllDigits(intS) /\ AllDigits(fracS)
                  /\ Len(intS) + Len(fracS) >= 1
                  /\ ePos = 0 \/ (Len(expD) >= 1 /\ AllDigits(expD))
        expV   == IF ePos = 0 THEN 0
                  ELSE IF expNeg THEN 0 - ToInt(DigitsToNat(expD), 10)
                  ELSE ToInt(DigitsToNat(expD), 10)
    IN  IF Lower(body) = <<"n", "a", "n">>
        THEN [ok |-> TRUE, d |-> DecNaN]
        ELSE IF Lower(body) \in {<<"i", "n", "f">>,
                                 <<"i", "n", "f", "i", "n", "i", "t", "y">>}
        THEN [ok |-> TRUE, d |-> DecInf(neg)]
        ELSE IF numOk
        THEN [ok |-> TRUE,
              d  |-> DecFin(neg, DigitsToNat(intS \o fracS), expV - Len(fracS))]
        ELSE [ok |-> FALSE, d |-> DecNaN]

\* A database NUMERIC(p, scale) value, held as an integer count of 10^-scale,
\* as the Decimal the driver returns for it.
DecimalFromScaled(v, scale) ==
    DecFin(v < 0, FromInt(IF v < 0 THEN 0 - v ELSE v, 10), 0 - scale)

\* Decimal(int)
DecimalFromInt(v) == DecimalFromScaled(v, 0)

\* The rounding of a context whose precision a finished call has lowered.
DecRoundLoweredByCall(d) ==
    IF d.kind # "fin" THEN d
    ELSE LET r == RoundHalfEven(d.coef,
                      IF resp.outcome.kind = "pending" THEN Prec ELSE 6, 10, FALSE)
         IN  DecFin(d.neg, r.m, d.exp + r.shift)

\* The context rounding every arithmetic result gets.
DecRound(d) ==
    IF d.kind # "fin" THEN d
    ELSE LET r == RoundHalfEven(d.coef, Prec, 10, FALSE)
         IN  DecFin(d.neg, r.m, d.exp + r.shift)

\* The exact product of two Decimals, neither NaN, no zero times infinity.
DecMulExact(a, b) ==
    IF a.kind = "inf" \/ b.kind = "inf" THEN DecInf(a.neg # b.neg)
    ELSE DecFin(a.neg # b.neg, BigMul(a.coef, b.coef, 10), a.exp + b.exp)

\* a * b
DecMul(a, b) == DecRound(DecMulExact(a, b))

\* The exact sum of two finite Decimals that are >= 0.
DecAddExact(a, b) ==
    LET e == IF a.exp < b.exp THEN a.exp ELSE b.exp
    IN  DecFin(FALSE,
               BigAdd(ShiftUp(a.coef, a.exp - e), ShiftUp(b.coef, b.exp - e), 10),
               e)

\* a + b
DecAdd(a, b) == DecRound(DecAddExact(a, b))

\* d <= 0 for d not NaN (the comparison of a NaN raises InvalidOperation).
DecLeZero(d) == IF d.kind = "inf" THEN d.neg ELSE d.coef = <<>> \/ d.neg

\* d < 0 for d not NaN.
DecLtZero(d) == IF d.kind = "inf" THEN d.neg ELSE d.coef # <<>> /\ d.neg

\* DecCeilingInt with the rounding towards zero (ROUND_DOWN for ROUND_CEILING).
DecCeilingIntTruncates(d) ==
    LET k  == 0 - d.exp
        ip == IF d.exp >= 0 THEN ShiftUp(d.coef, d.exp)
              ELSE IF k >= Len(d.coef) THEN <<>>
              ELSE SubSeq(d.coef, k + 1, Len(d.coef))
    IN  [neg |-> d.neg /\ ip # <<>>, mag |-> ip]

\* int(d.to_integral_value(rounding=ROUND_CEILING)) for finite d: the integer
\* as [neg, mag], mag a base-10 BigNat.
DecCeilingInt(d) ==
    LET k    == 0 - d.exp
        ip   == IF d.exp >= 0 THEN ShiftUp(d.coef, d.exp)
                ELSE IF k >= Len(d.coef) THEN <<>>
                ELSE SubSeq(d.coef, k + 1, Len(d.coef))
        frac == d.exp < 0 /\ AnyNonZero(d.coef, 1, k)
        mag  == IF frac /\ ~d.neg THEN BigAdd(ip, <<1>>, 10) ELSE ip
    IN  [neg |-> d.neg /\ mag # <<>>, mag |-> mag]

\* A small integer as [neg, mag].
BigInt(v) == [neg |-> v < 0, mag |-> FromInt(IF v < 0 THEN 0 - v ELSE v, 10)]

-----------------------------------------------------------------------------
(* float, as app/main.py uses it to total the production hours.            *)
(* A float is [neg, m, e]: (-1)^neg * m * 2^e with m a base-2 BigNat of at *)
(* most Mantissa digits; 0.0 has m = <<>>.                                 *)

\* The significand of a binary64 has 53 bits.
Mantissa == 53

FloatZero == [neg |-> FALSE, m |-> <<>>, e |-> 0]

\* The binary digits after the point are produced ChunkBits at a time, and
\* FractionChunks chunks of them are more than a significand and its guard
\* digit for every value of at least 10^-4.
ChunkBits == 16
FractionChunks == 5

\* The remainder of r / den (0 <= r < den) after j chunks of binary digits.
RECURSIVE FractionRem(_, _, _)
FractionRem(r, den, j) ==
    IF j = 0 THEN r ELSE (FractionRem(r, den, j - 1) * 2^ChunkBits) % den

\* The first FractionChunks * ChunkBits binary digits of r / den after the
\* point, least significant first.
FractionBits(r, den) ==
    [i \in 1..(FractionChunks * ChunkBits) |->
        LET j == FractionChunks - ((i - 1) \div ChunkBits)
            q == (FractionRem(r, den, j - 1) * 2^ChunkBits) \div den
        IN  (q \div 2^((i - 1) % ChunkBits)) % 2]

\* 10^scale
RECURSIVE Pow10(_)
Pow10(scale) == IF scale = 0 THEN 1 ELSE 10 * Pow10(scale - 1)

\* float(Decimal) of a NUMERIC value v * 10^-scale: the nearest binary64.
FloatFromScaled(v, scale) ==
    LET a    == IF v < 0 THEN 0 - v ELSE v
        den  == Pow10(scale)
        k    == FractionChunks * ChunkBits
        n    == Trim(FractionBits(a % den, den) \o FromInt(a \div den, 2))
        r    == RoundHalfEven(n, Mantissa, 2, FractionRem(a % den, den, FractionChunks) # 0)
    IN  IF n = <<>> THEN FloatZero
        ELSE [neg |-> v < 0, m |-> r.m, e |-> r.shift - k]

\* a + b on floats: the exact sum, rounded to nearest, ties to even.
FloatAdd(a, b) ==
    IF a.m = <<>> THEN b
    ELSE IF b.m = <<>> THEN a
    ELSE LET e   == IF a.e < b.e THEN a.e ELSE b.e
             x   == ShiftUp(a.m, a.e - e)
             y   == ShiftUp(b.m, b.e - e)
             cmp == BigCmp(x, y)
             neg == IF a.neg = b.neg \/ cmp > 0 THEN a.neg ELSE b.neg
             sum == IF a.neg = b.neg THEN BigAdd(x, y, 2)
                    ELSE IF cmp > 0 THEN BigSub(x, y, 2)
                    ELSE BigSub(y, x, 2)
             r   == RoundHalfEven(sum, Mantissa, 2, FALSE)
         IN  IF sum = <<>> THEN FloatZero
             ELSE [neg |-> neg, m |-> r.m, e |-> e + r.shift]

\* int(math.ceil(f))
FloatCeil(f) ==
    LET k    == 0 - f.e
        ip   == IF f.e >= 0 THEN ShiftUp(f.m, f.e)
                ELSE IF k >= Len(f.m) THEN <<>>
                ELSE SubSeq(f.m, k + 1, Len(f.m))
        frac == f.e < 0 /\ AnyNonZero(f.m, 1, k)
        v    == ToInt(ip, 2)
    IN  IF f.neg THEN 0 - v ELSE IF frac THEN v + 1 ELSE v

FloatSub(a, b) == FloatAdd(a, IF b.m = <<>> THEN b ELSE [b EXCEPT !.neg = ~b.neg])

\* fabs(a) >= fabs(b)
FloatAbsGe(a, b) ==
    IF b.m = <<>> THEN TRUE
    ELSE IF a.m = <<>> THEN FALSE
    ELSE LET e == IF a.e < b.e THEN a.e ELSE b.e
         IN  BigCmp(ShiftUp(a.m, a.e - e), ShiftUp(b.m, b.e - e)) >= 0

\* sum(xs) over a sequence of floats as CPython before 3.12 computes it:
\* 0 + xs[1] + xs[2] + ..., left to right.
RECURSIVE FloatSum(_)
FloatSum(xs) ==
    IF xs = <<>> THEN FloatZero
    ELSE FloatAdd(FloatSum(SubSeq(xs, 1, Len(xs) - 1)), xs[Len(xs)])

\* sum(xs) as CPython from 3.12 on computes it: the running total with the
\* rounding errors of the additions collected in c (Neumaier), [total, c].
RECURSIVE CompensatedTotal(_)
CompensatedTotal(xs) ==
    IF xs = <<>> THEN [total |-> FloatZero, c |-> FloatZero]
    ELSE LET acc == CompensatedTotal(SubSeq(xs, 1, Len(xs) - 1))
             x   == xs[Len(xs)]
             t   == FloatAdd(acc.total, x)
             err == IF FloatAbsGe(acc.total, x)
                    THEN FloatAdd(FloatSub(acc.total, t), x)
                    ELSE FloatAdd(FloatSub(x, t), acc.total)
         IN  [total |-> t, c |-> FloatAdd(acc.c, err)]

FloatSumCompensated(xs) ==
    LET acc == CompensatedTotal(xs)
    IN  IF acc.c.m # <<>> THEN FloatAdd(acc.total, acc.c) ELSE acc.total

\* The results sum(xs) can have: the interpreter version is not pinned.
FloatSums(xs) == {FloatSum(xs), FloatSumCompensated(xs)}


-----------------------------------------------------------------------------
(* The raw-material calculator (app/services.py).                          *)

\* NUMERIC(6, 2), NUMERIC(5, 4): the scales of coefficient and loss_percent.
CoefficientScale == 2
LossScale == 4

\* What a call does: it returns an int, [neg, mag], or it raises.
Return(v) == [kind |-> "return", value |-> v, exc |-> ""]

Raise(e) == [kind |-> "raise", value |-> BigInt(0), exc |-> e]

Sentinel == BigInt(0 - 1)

\* The integer part of a finite Decimal, towards zero, as a small integer.
TruncToInt(d) ==
    LET k   == 0 - d.exp
        ip  == IF d.exp >= 0 THEN ShiftUp(d.coef, d.exp)
               ELSE IF k >= Len(d.coef) THEN <<>>
               ELSE SubSeq(d.coef, k + 1, Len(d.coef))
        v   == ToInt(ip, 10)
    IN  IF d.neg THEN 0 - v ELSE v

\* int(s) for a str s: an optional sign and decimal digits, ValueError
\* otherwise.
IntFromText(s) ==
    LET signed == s # <<>> /\ s[1] \in {"-", "+"}
        body   == IF signed THEN Tail(s) ELSE s
        v      == ToInt(DigitsToNat(body), 10)
    IN  IF body # <<>> /\ AllDigits(body)
        THEN [st |-> "ok", v |-> IF s[1] = "-" THEN 0 - v ELSE v, exc |-> ""]
        ELSE [st |-> "caught", v |-> 0, exc |-> "ValueError"]

\* int(quantity): [st, v, exc]. st is "ok" with the integer v, "caught" where
\* int raises the TypeError or ValueError the function catches, "raise" where
\* it raises anything else. A quantity is an int [t |-> "int", v], None
\* [t |-> "none"], a str [t |-> "str", s] or a float given by its repr
\* [t |-> "float", s].
IntOf(quantity) ==
    CASE quantity.t = "int"  -> [st |-> "ok", v |-> quantity.v, exc |-> ""]
      [] quantity.t = "none" -> [st |-> "caught", v |-> 0, exc |-> "TypeError"]
      [] quantity.t = "str"  -> IntFromText(quantity.s)
      [] quantity.t = "float" ->
            LET f == DecimalFromText(quantity.s).d
            IN  CASE f.kind = "nan" -> [st |-> "caught", v |-> 0, exc |-> "ValueError"]
                  [] f.kind = "inf" -> [st |-> "raise", v |-> 0, exc |-> "OverflowError"]
                  [] OTHER          -> [st |-> "ok", v |-> TruncToInt(f), exc |-> ""]

\* db.get(models.ProductType, id), db.get(models.MaterialType, id): the rows
\* with that id (none or one).
GetProductType(id) == {r \in product_type : r.id = id}

GetMaterialType(id) == {r \in material_type : r.id = id}

\* Lines 71-86: the arithmetic on validated operands.
RawMaterialTotal(p1, p2, coeff, loss, qty) ==
    LET per_unit             == DecMul(DecMul(p1, p2), coeff)
        total_without_losses == DecMul(per_unit, DecimalFromInt(qty))
        total_with_losses    == DecMul(total_without_losses,
                                       DecAdd(DecimalFromInt(1), loss))
    IN  IF DecLeZero(per_unit) THEN Return(Sentinel)
        ELSE IF DecLeZero(total_with_losses) THEN Return(Sentinel)
        ELSE IF total_with_losses.kind = "inf" THEN Raise("OverflowError")
        ELSE Return(DecCeilingInt(total_with_losses))

\* param1 and param2 are given as the text str() makes of them.
calculate_raw_material_amount(product_type_id, material_type_id, quantity, param1, param2) ==
    LET q  == IntOf(quantity)
        t1 == DecimalFromText(param1)
        t2 == DecimalFromText(param2)
        p1 == t1.d
        p2 == t2.d
        pt == GetProductType(product_type_id)
        mt == GetMaterialType(material_type_id)
    IN  IF q.st = "raise" THEN Raise(q.exc)
        ELSE IF q.st = "caught" THEN Return(Sentinel)
        ELSE IF q.v <= 0 THEN Return(Sentinel)
        ELSE IF ~t1.ok \/ ~t2.ok THEN Return(Sentinel)
        ELSE IF p1.kind = "nan" THEN Raise("InvalidOperation")
        ELSE IF DecLeZero(p1) THEN Return(Sentinel)
        ELSE IF p2.kind = "nan" THEN Raise("InvalidOperation")
        ELSE IF DecLeZero(p2) THEN Return(Sentinel)
        ELSE IF pt = {} \/ mt = {} THEN Return(Sentinel)
        ELSE LET coeff == DecimalFromScaled((CHOOSE r \in pt : TRUE).coefficient,
                                            CoefficientScale)
                 loss  == DecimalFromScaled((CHOOSE r \in mt : TRUE).loss_percent,
                                            LossScale)
             IN  IF DecLeZero(coeff) \/ DecLtZero(loss) THEN Return(Sentinel)
                 ELSE RawMaterialTotal(p1, p2, coeff, loss, q.v)

-----------------------------------------------------------------------------
(* The reference data every specification starts from, and the calls of    *)
(* the calculator.                                                         *)

\* Names are text, sequences of one-character strings. coefficient is in
\* 1/100, loss_percent in 1/10000 (0.05 is 500). The loader
\* writes whatever the spreadsheets hold, a zero coefficient and a negative
\* loss included.
ProductTypeRows ==
    { [id |-> 1, name |-> <<"S", "o", "f", "a", "s">>, coefficient |-> 200],
      [id |-> 2, name |-> <<"B", "e", "d", "s">>, coefficient |-> 100],
      [id |-> 3, name |-> <<"D", "o", "o", "r", "s">>, coefficient |-> 0] }

MaterialTypeRows ==
    { [id |-> 1, name |-> <<"O", "a", "k">>, loss_percent |-> 500],
      [id |-> 2, name |-> <<"P", "i", "n", "e">>, loss_percent |-> 0],
      [id |-> 3, name |-> <<"A", "s", "h">>, loss_percent |-> 0 - 100] }

WorkshopTypeRows == { [id |-> 1, name |-> <<"J", "o", "i", "n", "e", "r", "y">>] }

\* An identifier no table holds.
MissingId == 9

TypeIdInputs == {1, 2, 3, MissingId}

QuantityInputs ==
    { [t |-> "int", v |-> 10], [t |-> "int", v |-> 1], [t |-> "int", v |-> 0],
      [t |-> "int", v |-> 0 - 5], [t |-> "none"],
      [t |-> "str", s |-> <<"a", "b", "c">>],
      [t |-> "float", s |-> <<"n", "a", "n">>],
      [t |-> "float", s |-> <<"i", "n", "f">>] }

\* str(param): floats by their repr, and a str that is no number.
ParamInputs ==
    { <<"1", ".", "5">>, <<"2", ".", "0">>, <<"1", ".", "0">>,
      <<"0", ".", "2", "5">>,
      <<"6", "2", ".", "0", "0", "0", "1">>,
      <<"0", ".", "0">>, <<"-", "1", ".", "0">>,
      <<"1", "0", "0", "0", "0", "0", "0", "0", "0", "0", "0", "0", "0", "0", "0", "0", ".", "1">>,
      <<"1", "0", ".", "0", "0", "0", "0", "0", "0", "0", "0", "0", "0", "0", "0", "0", "0", "2">>,
      <<"n", "a", "n">>, <<"i", "n", "f">>, <<"-", "i", "n", "f">>,
      <<"a", "b", "c">> }

\* A call not yet made.
Pending == [kind |-> "pending", value |-> BigInt(0), exc |-> ""]

\* The calculator is a function of its arguments and of the two type tables:
\* the arguments of the one call are drawn here, CalculateCall makes the call.
InitCalc ==
    /\ product_type = ProductTypeRows
    /\ material_type = MaterialTypeRows
    /\ workshop_type = WorkshopTypeRows
    /\ workshop = {}
    /\ product = {}
    /\ product_workshop = {}
    /\ product_id_seq = 0
    /\ workshop_id_seq = 0
    /\ resp \in [op : {"calculate_raw_material_amount"},
                 product_type_id : TypeIdInputs, material_type_id : TypeIdInputs,
                 quantity : QuantityInputs, param1 : ParamInputs,
                 param2 : ParamInputs, outcome : {Pending}, again : {Pending}]

\* A call of services.calculate_raw_material_amount.
CalculateCall ==
    /\ resp.op = "calculate_raw_material_amount"
    /\ resp.outcome = Pending
    /\ resp' = [resp EXCEPT !.outcome =
                    calculate_raw_material_amount(resp.product_type_id,
                        resp.material_type_id, resp.quantity, resp.param1,
                        resp.param2)]
    /\ UNCHANGED <<product_type, material_type, workshop_type, workshop,
                   product, product_workshop, product_id_seq, workshop_id_seq>>

\* A second call with the arguments of the first, the tables being what they
\* were: a new request, in a thread whose decimal context the first call has
\* left as it found it.
CalculateAgain ==
    /\ resp.op = "calculate_raw_material_amount"
    /\ resp.outcome # Pending
    /\ resp.again = Pending
    /\ resp' = [resp EXCEPT !.again =
                    calculate_raw_material_amount(resp.product_type_id,
                        resp.material_type_id, resp.quantity, resp.param1,
                        resp.param2)]
    /\ UNCHANGED <<product_type, material_type, workshop_type, workshop,
                   product, product_workshop, product_id_seq, workshop_id_seq>>

NextCalc == CalculateCall \/ CalculateAgain

SpecCalc == InitCalc /\ [][NextCalc]_vars

-----------------------------------------------------------------------------
(* The store (app/models.py) and the JSON API over it (app/main.py).        *)
(* A request is one action: the handler runs in its own session, and what   *)
(* it leaves behind is the committed tables and the response. production_   *)
(* time_hours and min_partner_price are NUMERIC(.., 2), held in 1/100.      *)

HoursScale == 2

\* The id sequences are cut off here: no insert is tried beyond it.
MaxId == 2

Tables == <<product_type, material_type, workshop_type, workshop, product,
            product_workshop>>

\* A response: the HTTP status, the detail of an HTTPException (or the query
\* status of a redirect, or the name of an uncaught exception), and the
\* constraints the database reported as violated.
Response(op, status, detail, violated) ==
    [op |-> op, status |-> status, detail |-> detail, violated |-> violated]

GetWorkshopType(id) == {r \in workshop_type : r.id = id}

\* db.get(models.Product, id), db.get(models.Workshop, id): none or one row.
GetProduct(id) == {r \in product : r.id = id}

GetWorkshop(id) == {r \in workshop : r.id = id}

\* query(ProductWorkshop).filter_by(product_id, workshop_id)
GetLink(product_id, workshop_id) ==
    {l \in product_workshop : l.product_id = product_id /\ l.workshop_id = workshop_id}

\* product.workshops and workshop.product_links, the relationship collections.
ProductLinks(product_id) == {l \in product_workshop : l.product_id = product_id}

WorkshopLinks(workshop_id) == {l \in product_workshop : l.workshop_id = workshop_id}

\* setattr for the fields a request body sets (dict(exclude_unset=True)): the
\* body is a record of the fields that are set.
SetFields(row, upd) ==
    [f \in DOMAIN row |-> IF f \in DOMAIN upd THEN upd[f] ELSE row[f]]

\* The constraints of the product table that row breaks beside the rows others.
ProductViolationsIgnoringArticle(row, others) ==
    {c \in {"product_name_key", "product_product_type_id_fkey",
            "product_material_type_id_fkey"} :
        \/ c = "product_name_key" /\ \E o \in others : o.name = row.name
        \/ c = "product_product_type_id_fkey" /\ GetProductType(row.product_type_id) = {}
        \/ c = "product_material_type_id_fkey" /\ GetMaterialType(row.material_type_id) = {}}

ProductViolations(row, others) ==
    {c \in {"product_name_key", "product_article_key",
            "product_product_type_id_fkey", "product_material_type_id_fkey"} :
        \/ c = "product_name_key" /\ \E o \in others : o.name = row.name
        \/ c = "product_article_key" /\ \E o \in others : o.article = row.article
        \/ c = "product_product_type_id_fkey" /\ GetProductType(row.product_type_id) = {}
        \/ c = "product_material_type_id_fkey" /\ GetMaterialType(row.material_type_id) = {}}

\* The constraints of the workshop table that row breaks beside the rows others.
WorkshopViolations(row, others) ==
    {c \in {"workshop_name_key", "workshop_workshop_type_id_fkey"} :
        \/ c = "workshop_name_key" /\ \E o \in others : o.name = row.name
        \/ c = "workshop_workshop_type_id_fkey" /\ GetWorkshopType(row.workshop_type_id) = {}}

\* The constraints of a product_workshop table without uq_product_workshop.
LinkViolationsIgnoringPair(row, others) ==
    {c \in {"product_workshop_product_id_fkey", "product_workshop_workshop_id_fkey"} :
        \/ c = "product_workshop_product_id_fkey" /\ GetProduct(row.product_id) = {}
        \/ c = "product_workshop_workshop_id_fkey" /\ GetWorkshop(row.workshop_id) = {}}

\* The constraints of the product_workshop table that row breaks.
LinkViolations(row, others) ==
    {c \in {"uq_product_workshop", "product_workshop_product_id_fkey",
            "product_workshop_workshop_id_fkey"} :
        \/ c = "uq_product_workshop" /\
              \E o \in others : o.product_id = row.product_id /\ o.workshop_id = row.workshop_id
        \/ c = "product_workshop_product_id_fkey" /\ GetProduct(row.product_id) = {}
        \/ c = "product_workshop_workshop_id_fkey" /\ GetWorkshop(row.workshop_id) = {}}

\* POST /workshops. The insert draws its id from the sequence whether or not
\* the row is accepted; an IntegrityError of any kind is answered with 400.
create_workshop(ws) ==
    /\ workshop_id_seq < MaxId
    /\ LET row == [id |-> workshop_id_seq + 1, name |-> ws.name,
                   workshop_type_id |-> ws.workshop_type_id,
                   workers_required |-> ws.workers_required]
           bad == WorkshopViolations(row, workshop)
       IN  /\ workshop_id_seq' = workshop_id_seq + 1
           /\ IF bad # {}
              THEN /\ workshop' = workshop
                   /\ resp' = Response("create_workshop", 400,
                                       "Workshop with this name already exists", bad)
              ELSE /\ workshop' = workshop \cup {row}
                   /\ resp' = Response("create_workshop", 201, "", {})
    /\ UNCHANGED <<product_type, material_type, workshop_type, product,
                   product_workshop, product_id_seq>>

\* PUT /workshops/{workshop_id}. commit() is not guarded: an IntegrityError
\* leaves the handler as an uncaught exception, the session is closed without
\* a commit and the client gets a 500.
update_workshop(workshop_id, upd) ==
    /\ LET found == GetWorkshop(workshop_id)
           ws    == CHOOSE r \in found : TRUE
           row   == SetFields(ws, upd)
           bad   == WorkshopViolations(row, workshop \ {ws})
       IN  IF found = {}
           THEN /\ workshop' = workshop
                /\ resp' = Response("update_workshop", 404, "Workshop not found", {})
           ELSE IF bad # {}
           THEN /\ workshop' = workshop
                /\ resp' = Response("update_workshop", 500, "IntegrityError", bad)
           ELSE /\ workshop' = (workshop \ {ws}) \cup {row}
                /\ resp' = Response("update_workshop", 200, "", {})
    /\ UNCHANGED <<product_type, material_type, workshop_type, product,
                   product_workshop, product_id_seq, workshop_id_seq>>

\* A delete of the workshop row that nothing holds back.
delete_workshop_unrestricted(workshop_id) ==
    /\ LET found == GetWorkshop(workshop_id)
       IN  IF found = {}
           THEN /\ workshop' = workshop
                /\ resp' = Response("delete_workshop", 404, "Workshop not found", {})
           ELSE /\ workshop' = workshop \ found
                /\ resp' = Response("delete_workshop", 204, "", {})
    /\ UNCHANGED <<product_type, material_type, workshop_type, product,
                   product_workshop, product_id_seq, workshop_id_seq>>

\* DELETE /workshops/{workshop_id}. The product_links relationship has no
\* delete cascade, so the unit of work first sets workshop_id of the links to
\* NULL, which the NOT NULL column refuses.
delete_workshop(workshop_id) ==
    /\ LET found == GetWorkshop(workshop_id)
       IN  IF found = {}
           THEN /\ workshop' = workshop
                /\ resp' = Response("delete_workshop", 404, "Workshop not found", {})
           ELSE IF WorkshopLinks(workshop_id) # {}
           THEN /\ workshop' = workshop
                /\ resp' = Response("delete_workshop", 500, "IntegrityError",
                                    {"product_workshop_workshop_id_not_null"})
           ELSE /\ workshop' = workshop \ found
                /\ resp' = Response("delete_workshop", 204, "", {})
    /\ UNCHANGED <<product_type, material_type, workshop_type, product,
                   product_workshop, product_id_seq, workshop_id_seq>>

\* POST /products. As create_workshop: every IntegrityError, a broken foreign
\* key as much as a taken name or article, is answered with the one 400.
create_product(prod) ==
    /\ product_id_seq < MaxId
    /\ LET row == [id |-> product_id_seq + 1, name |-> prod.name,
                   article |-> prod.article,
                   product_type_id |-> prod.product_type_id,
                   material_type_id |-> prod.material_type_id,
                   min_partner_price |-> prod.min_partner_price]
           bad == ProductViolations(row, product)
       IN  /\ product_id_seq' = product_id_seq + 1
           /\ IF bad # {}
              THEN /\ product' = product
                   /\ resp' = Response("create_product", 400,
                          "Product with this article or name already exists", bad)
              ELSE /\ product' = product \cup {row}
                   /\ resp' = Response("create_product", 201, "", {})
    /\ UNCHANGED <<product_type, material_type, workshop_type, workshop,
                   product_workshop, workshop_id_seq>>

\* PUT /products/{product_id}: commit() is not guarded, as in update_workshop.
update_product(product_id, upd) ==
    /\ LET found   == GetProduct(product_id)
           db_prod == CHOOSE r \in found : TRUE
           row     == SetFields(db_prod, upd)
           bad     == ProductViolations(row, product \ {db_prod})
       IN  IF found = {}
           THEN /\ product' = product
                /\ resp' = Response("update_product", 404, "Product not found", {})
           ELSE IF bad # {}
           THEN /\ product' = product
                /\ resp' = Response("update_product", 500, "IntegrityError", bad)
           ELSE /\ product' = (product \ {db_prod}) \cup {row}
                /\ resp' = Response("update_product", 200, "", {})
    /\ UNCHANGED <<product_type, material_type, workshop_type, workshop,
                   product_workshop, product_id_seq, workshop_id_seq>>

\* db.delete(product); db.commit(), shared by delete_product and
\* ui_product_delete. The workshops relationship has no delete cascade, so
\* the unit of work first sets product_id of the product's links to NULL,
\* which the NOT NULL column refuses: "deleted" when the row is gone,
\* "IntegrityError" when the commit raised and nothing was written.
DeleteProductRow(db_prod) ==
    IF ProductLinks(db_prod.id) # {} THEN "IntegrityError" ELSE "deleted"

\* DELETE /products/{product_id}
delete_product(product_id) ==
    /\ LET found   == GetProduct(product_id)
           db_prod == CHOOSE r \in found : TRUE
       IN  IF found = {}
           THEN /\ product' = product
                /\ resp' = Response("delete_product", 404, "Product not found", {})
           ELSE IF DeleteProductRow(db_prod) = "IntegrityError"
           THEN /\ product' = product
                /\ resp' = Response("delete_product", 500, "IntegrityError",
                                    {"product_workshop_product_id_not_null"})
           ELSE /\ product' = product \ {db_prod}
                /\ resp' = Response("delete_product", 204, "", {})
    /\ UNCHANGED <<product_type, material_type, workshop_type, workshop,
                   product_workshop, product_id_seq, workshop_id_seq>>

\* POST /products/{product_id}/workshops
add_product_workshop(product_id, body) ==
    /\ LET link == [product_id |-> product_id, workshop_id |-> body.workshop_id,
                    production_time_hours |-> body.production_time_hours]
           bad  == LinkViolations(link, product_workshop)
       IN  IF GetProduct(product_id) = {}
           THEN /\ product_workshop' = product_workshop
                /\ resp' = Response("add_product_workshop", 404, "Product not found", {})
           ELSE IF GetWorkshop(body.workshop_id) = {}
           THEN /\ product_workshop' = product_workshop
                /\ resp' = Response("add_product_workshop", 404, "Workshop not found", {})
           ELSE IF bad # {}
           THEN /\ product_workshop' = product_workshop
                /\ resp' = Response("add_product_workshop", 400,
                          "This workshop is already linked to the product", bad)
           ELSE /\ product_workshop' = product_workshop \cup {link}
                /\ resp' = Response("add_product_workshop", 201, "", {})
    /\ UNCHANGED <<product_type, material_type, workshop_type, workshop,
                   product, product_id_seq, workshop_id_seq>>

\* PUT /products/{product_id}/workshops/{workshop_id}
update_product_workshop(product_id, workshop_id, body) ==
    /\ LET found == GetLink(product_id, workshop_id)
           link  == CHOOSE l \in found : TRUE
       IN  IF found = {}
           THEN /\ product_workshop' = product_workshop
                /\ resp' = Response("update_product_workshop", 404,
                                    "Product-workshop link not found", {})
           ELSE /\ product_workshop' =
                       (product_workshop \ {link}) \cup {SetFields(link, body)}
                /\ resp' = Response("update_product_workshop", 200, "", {})
    /\ UNCHANGED <<product_type, material_type, workshop_type, workshop,
                   product, product_id_seq, workshop_id_seq>>

\* DELETE /products/{product_id}/workshops/{workshop_id}
delete_product_workshop(product_id, workshop_id) ==
    /\ LET found == GetLink(product_id, workshop_id)
       IN  IF found = {}
           THEN /\ product_workshop' = product_workshop
                /\ resp' = Response("delete_product_workshop", 404,
                                    "Product-workshop link not found", {})
           ELSE /\ product_workshop' = product_workshop \ found
                /\ resp' = Response("delete_product_workshop", 204, "", {})
    /\ UNCHANGED <<product_type, material_type, workshop_type, workshop,
                   product, product_id_seq, workshop_id_seq>>

-----------------------------------------------------------------------------
(* The HTML forms over the store (app/main.py). Form fields are text.       *)

PriceScale == 2

\* str.strip()
Strip(s) ==
    IF \A i \in 1..Len(s) : s[i] = " " THEN <<>>
    ELSE LET first == CHOOSE i \in 1..Len(s) :
                          s[i] # " " /\ \A j \in 1..(i - 1) : s[j] = " "
             last  == CHOOSE i \in 1..Len(s) :
                          s[i] # " " /\ \A j \in (i + 1)..Len(s) : s[j] = " "
         IN  SubSeq(s, first, last)

\* s.replace(" ", "").replace(",", ".")
CleanPrice(s) ==
    LET kept == SelectSeq(s, LAMBDA c : c # " ")
        text == [i \in 1..Len(kept) |-> IF kept[i] = "," THEN "." ELSE kept[i]]
    IN  SubSeq(text, 1, Len(text))

\* value.quantize(Decimal("0.01")) for finite value, as a number of 1/100:
\* [ok, v], not ok where the result has more digits than the context allows.
Quantize(d) ==
    LET k    == 0 - PriceScale - d.exp
        kept == IF k <= 0 THEN ShiftUp(d.coef, 0 - k)
                ELSE IF k >= Len(d.coef) THEN <<>>
                ELSE SubSeq(d.coef, k + 1, Len(d.coef))
        g    == IF k <= 0 THEN 0 ELSE Digit(d.coef, k)
        rest == k > 1 /\ AnyNonZero(d.coef, 1, k - 1)
        up   == g > 5 \/ (g = 5 /\ (rest \/ Digit(kept, 1) % 2 = 1))
        m    == IF up THEN BigAdd(kept, <<1>>, 10) ELSE kept
    IN  [ok |-> Len(m) <= Prec, v |-> IF d.neg THEN 0 - ToInt(m, 10) ELSE ToInt(m, 10)]

\* parse_price_ru: [st, value, error]. st is "ok" with the price in 1/100,
\* "error" with the message written to field_errors, "raise" where an
\* exception leaves the function: NaN < 0 and the quantize of an infinity or
\* of too long a number raise InvalidOperation outside the try block.
parse_price_ru(raw_value) ==
    LET cleaned == CleanPrice(Strip(raw_value))
        t       == DecimalFromText(cleaned)
        value   == t.d
        q       == Quantize(value)
    IN  IF cleaned = <<>> THEN [st |-> "error", value |-> 0, error |-> "required"]
        ELSE IF ~t.ok THEN [st |-> "error", value |-> 0, error |-> "format"]
        ELSE IF value.kind = "nan" THEN [st |-> "raise", value |-> 0, error |-> "InvalidOperation"]
        ELSE IF DecLtZero(value) THEN [st |-> "error", value |-> 0, error |-> "negative"]
        ELSE IF value.kind = "inf" \/ ~q.ok
             THEN [st |-> "raise", value |-> 0, error |-> "InvalidOperation"]
        ELSE [st |-> "ok", value |-> q.v, error |-> ""]

\* parse_positive_int: [st, value, error], st "ok" or "error".
parse_positive_int(raw_value) ==
    LET cleaned == Strip(raw_value)
        n       == IntFromText(cleaned)
    IN  IF cleaned = <<>> THEN [st |-> "error", value |-> 0, error |-> "required"]
        ELSE IF n.st # "ok" THEN [st |-> "error", value |-> 0, error |-> "integer"]
        ELSE IF n.v <= 0 THEN [st |-> "error", value |-> 0, error |-> "positive"]
        ELSE [st |-> "ok", value |-> n.v, error |-> ""]

\* The keys of field_errors after the validation of the product form: the
\* cleaned name and article and the three parsed fields.
ProductFieldErrors(name_clean, article_clean, pt_id, mt_id, price) ==
    {k \in {"name", "article", "product_type_id", "material_type_id", "min_partner_price"} :
        \/ k = "name" /\ name_clean = <<>>
        \/ k = "article" /\ article_clean = <<>>
        \/ k = "product_type_id" /\ pt_id.st # "ok"
        \/ k = "material_type_id" /\ mt_id.st # "ok"
        \/ k = "min_partner_price" /\ price.st # "ok"}

\* What a form handler answers: the form again (400, with is_edit in its
\* context) or a redirect.
FormResponse(op, status, detail, violated, is_edit) ==
    [op |-> op, status |-> status, detail |-> detail, violated |-> violated,
     is_edit |-> is_edit]

\* ui_product_save from line 638 on, the fields cleaned and parsed. A 400
\* answers with the form again: detail "field_errors" for the validation
\* messages, "__all__" for the message that the article or the name is taken;
\* a 303 redirects to the list with a status in the query.
SaveProduct(product_pk, name_clean, article_clean, pt_id, mt_id, price) ==
    LET is_edit == product_pk.text # <<>>
        found   == GetProduct(product_pk.v)
        old     == CHOOSE r \in found : TRUE
        id      == IF is_edit THEN old.id ELSE product_id_seq + 1
        row     == [id |-> id, name |-> name_clean, article |-> article_clean,
                    product_type_id |-> pt_id.value, material_type_id |-> mt_id.value,
                    min_partner_price |-> price.value]
        others  == {r \in product : r.id # id}
        bad     == ProductViolations(row, others)
    IN  IF price.st = "raise"
        THEN /\ UNCHANGED <<product, product_id_seq>>
             /\ resp' = Response("ui_product_save", 500, "InvalidOperation", {})
        ELSE IF ProductFieldErrors(name_clean, article_clean, pt_id, mt_id, price) # {}
        THEN /\ UNCHANGED <<product, product_id_seq>>
             /\ resp' = FormResponse("ui_product_save", 400, "field_errors", {}, is_edit)
        ELSE IF is_edit /\ (product_pk.st # "ok" \/ found = {})
        THEN /\ UNCHANGED <<product, product_id_seq>>
             /\ resp' = FormResponse("ui_product_save", 303, "product_not_found", {}, is_edit)
        ELSE /\ is_edit \/ product_id_seq < MaxId
             /\ product_id_seq' = IF is_edit THEN product_id_seq ELSE product_id_seq + 1
             /\ IF bad # {}
                THEN /\ product' = product
                     /\ resp' = FormResponse("ui_product_save", 400, "__all__", bad, is_edit)
                ELSE /\ product' = others \cup {row}
                     /\ resp' = FormResponse("ui_product_save", 303,
                            IF is_edit THEN "product_updated" ELSE "product_created",
                            {}, is_edit)

\* int(product_id) of the edit form, with the stripped text of the field.
ProductPk(product_id) ==
    [text |-> Strip(product_id), st |-> IntFromText(Strip(product_id)).st,
     v |-> IntFromText(Strip(product_id)).v]

\* POST /ui/products/save
ui_product_save(form) ==
    /\ SaveProduct(ProductPk(form.id), Strip(form.name), Strip(form.article),
                   parse_positive_int(form.product_type_id),
                   parse_positive_int(form.material_type_id),
                   parse_price_ru(form.min_partner_price))
    /\ UNCHANGED <<product_type, material_type, workshop_type, workshop,
                   product_workshop, workshop_id_seq>>

\* POST /ui/products/{product_id}/delete: commit() is not guarded.
ui_product_delete(product_id) ==
    /\ LET found   == GetProduct(product_id)
           product_row == CHOOSE r \in found : TRUE
       IN  IF found = {}
           THEN /\ product' = product
                /\ resp' = Response("ui_product_delete", 303, "product_not_found", {})
           ELSE IF DeleteProductRow(product_row) = "IntegrityError"
           THEN /\ product' = product
                /\ resp' = Response("ui_product_delete", 500, "IntegrityError",
                                    {"product_workshop_product_id_not_null"})
           ELSE /\ product' = product \ {product_row}
                /\ resp' = Response("ui_product_delete", 303, "product_deleted", {})
    /\ UNCHANGED <<product_type, material_type, workshop_type, workshop,
                   product_workshop, product_id_seq, workshop_id_seq>>

\* The keys of field_errors after the validation of the workshop form.
WorkshopFieldErrorsIgnoringWorkers(name_clean, wt_id, workers) ==
    {k \in {"name", "workshop_type_id"} :
        \/ k = "name" /\ name_clean = <<>>
        \/ k = "workshop_type_id" /\ wt_id.st # "ok"}

WorkshopFieldErrors(name_clean, wt_id, workers) ==
    {k \in {"name", "workshop_type_id", "workers_required"} :
        \/ k = "name" /\ name_clean = <<>>
        \/ k = "workshop_type_id" /\ wt_id.st # "ok"
        \/ k = "workers_required" /\ workers.st # "ok"}

\* ui_workshop_save from line 887 on, the fields cleaned and parsed.
SaveWorkshop(workshop_pk, name_clean, wt_id, workers) ==
    LET is_edit == workshop_pk.text # <<>>
        found   == GetWorkshop(workshop_pk.v)
        old     == CHOOSE r \in found : TRUE
        id      == IF is_edit THEN old.id ELSE workshop_id_seq + 1
        row     == [id |-> id, name |-> name_clean,
                    workshop_type_id |-> wt_id.value,
                    workers_required |-> workers.value]
        others  == {r \in workshop : r.id # id}
        bad     == WorkshopViolations(row, others)
    IN  IF WorkshopFieldErrors(name_clean, wt_id, workers) # {}
        THEN /\ UNCHANGED <<workshop, workshop_id_seq>>
             /\ resp' = FormResponse("ui_workshop_save", 400, "field_errors", {}, is_edit)
        ELSE IF is_edit /\ (workshop_pk.st # "ok" \/ found = {})
        THEN /\ UNCHANGED <<workshop, workshop_id_seq>>
             /\ resp' = FormResponse("ui_workshop_save", 303, "workshop_not_found",
                                     {}, is_edit)
        ELSE /\ is_edit \/ workshop_id_seq < MaxId
             /\ workshop_id_seq' = IF is_edit THEN workshop_id_seq ELSE workshop_id_seq + 1
             /\ IF bad # {}
                THEN /\ workshop' = workshop
                     /\ resp' = FormResponse("ui_workshop_save", 400, "__all__", bad, is_edit)
                ELSE /\ workshop' = others \cup {row}
                     /\ resp' = FormResponse("ui_workshop_save", 303,
                            IF is_edit THEN "workshop_updated" ELSE "workshop_created",
                            {}, is_edit)

\* POST /ui/workshops/save
ui_workshop_save(form) ==
    /\ SaveWorkshop(ProductPk(form.id), Strip(form.name),
                    parse_positive_int(form.workshop_type_id),
                    parse_positive_int(form.workers_required))
    /\ UNCHANGED <<product_type, material_type, workshop_type, product,
                   product_workshop, product_id_seq>>

\* POST /ui/workshops/{workshop_id}/delete: db.delete(workshop); db.commit(),
\* not guarded, as in delete_workshop.
ui_workshop_delete(workshop_id) ==
    /\ LET found == GetWorkshop(workshop_id)
       IN  IF found = {}
           THEN /\ workshop' = workshop
                /\ resp' = Response("ui_workshop_delete", 303, "workshop_not_found", {})
           ELSE IF WorkshopLinks(workshop_id) # {}
           THEN /\ workshop' = workshop
                /\ resp' = Response("ui_workshop_delete", 500, "IntegrityError",
                                    {"product_workshop_workshop_id_not_null"})
           ELSE /\ workshop' = workshop \ found
                /\ resp' = Response("ui_workshop_delete", 303, "workshop_deleted", {})
    /\ UNCHANGED <<product_type, material_type, workshop_type, product,
                   product_workshop, product_id_seq, workshop_id_seq>>

-----------------------------------------------------------------------------
(* The loader (scripts/import_data.py). The cells of a sheet are text; a    *)
(* number cell is empty or the text of a finite number of a few digits.     *)
(* conn is what the connection sees inside its transaction: the six tables, *)
(* the id sequences seq, and exc, the exception that has left an import     *)
(* function ("" while there is none). A sequence gives a number to every    *)
(* INSERT that is executed, the ones that end in ON CONFLICT or in a        *)
(* refused row included, and is not rolled back.                            *)

\* The characters of the names in the order the database and
\* sorted() put them.
Alphabet ==
    <<" ", "-", "0", "1", "2", "3", "4", "5", "6", "7", "8", "9",
      "A", "B", "C", "D", "E", "F", "G", "H", "I", "J", "K", "L", "M",
      "N", "O", "P", "Q", "R", "S", "T", "U", "V", "W", "X", "Y", "Z",
      "a", "b", "c", "d", "e", "f", "g", "h", "i", "j", "k", "l", "m",
      "n", "o", "p", "q", "r", "s", "t", "u", "v", "w", "x", "y", "z">>

CharRank(c) == CHOOSE i \in 1..Len(Alphabet) : Alphabet[i] = c

\* a sorts before b
TextLess(a, b) ==
    \E i \in 1..Len(b) :
        /\ i <= Len(a) + 1
        /\ \A j \in 1..(i - 1) : a[j] = b[j]
        /\ i = Len(a) + 1 \/ CharRank(a[i]) < CharRank(b[i])

\* to_decimal_ru: [st, d]. st is "ok" with the Decimal d, "none" for a cell
\* that is empty once "%" and the spaces are gone, "raise" where Decimal
\* raises InvalidOperation.
to_decimal_ru(value) ==
    LET kept == SelectSeq(Strip(value), LAMBDA c : c # "%" /\ c # " ")
        text == [i \in 1..Len(kept) |-> IF kept[i] = "," THEN "." ELSE kept[i]]
        t    == DecimalFromText(SubSeq(text, 1, Len(text)))
    IN  IF kept = <<>> THEN [st |-> "none", d |-> DecNaN]
        ELSE IF ~t.ok THEN [st |-> "raise", d |-> DecNaN]
        ELSE [st |-> "ok", d |-> t.d]

\* A finite Decimal stored in a NUMERIC(precision, scale) column, as a number
\* of 10^-scale: rounded to scale places, halves away from zero; not ok
\* where the value needs more than precision digits.
Numeric(d, precision, scale) ==
    LET k    == 0 - scale - d.exp
        kept == IF k <= 0 THEN ShiftUp(d.coef, 0 - k)
                ELSE IF k >= Len(d.coef) THEN <<>>
                ELSE SubSeq(d.coef, k + 1, Len(d.coef))
        m    == IF k > 0 /\ Digit(d.coef, k) >= 5 THEN BigAdd(kept, <<1>>, 10) ELSE kept
    IN  [ok |-> Len(m) <= precision,
         v  |-> IF d.neg THEN 0 - ToInt(m, 10) ELSE ToInt(m, 10)]

\* import_product_types: every row [name, coefficient] is upserted on name.
import_product_types(conn, sheet) ==
    LET after[k \in 0..Len(sheet)] ==
            IF k = 0 THEN conn
            ELSE LET prev  == after[k - 1]
                     name  == Strip(sheet[k].name)
                     coeff == to_decimal_ru(sheet[k].coefficient)
                     n     == Numeric(coeff.d, 6, CoefficientScale)
                     id    == prev.seq.product_type + 1
                     drawn == [prev EXCEPT !.seq.product_type = id]
                 IN  IF prev.exc # "" THEN prev
                     ELSE IF coeff.st = "raise"
                     THEN [prev EXCEPT !.exc = "InvalidOperation"]
                     ELSE IF coeff.st = "none"
                     THEN [drawn EXCEPT !.exc = "IntegrityError"]
                     ELSE IF ~n.ok
                     THEN [drawn EXCEPT !.exc = "DataError"]
                     ELSE IF \E r \in prev.product_type : r.name = name
                     THEN [drawn EXCEPT !.product_type =
                              {IF r.name = name THEN [r EXCEPT !.coefficient = n.v] ELSE r :
                                   r \in prev.product_type}]
                     ELSE [drawn EXCEPT !.product_type =
                              prev.product_type
                              \cup {[id |-> id, name |-> name, coefficient |-> n.v]}]
    IN  after[Len(sheet)]

\* import_material_types: every row [name, loss], the loss a percentage, is
\* upserted on name. None / Decimal("100") raises TypeError; the division
\* of a number of a few digits is exact.
import_material_types(conn, sheet) ==
    LET after[k \in 0..Len(sheet)] ==
            IF k = 0 THEN conn
            ELSE LET prev  == after[k - 1]
                     name  == Strip(sheet[k].name)
                     loss  == to_decimal_ru(sheet[k].loss)
                     n     == Numeric([loss.d EXCEPT !.exp = @ - 2], 5, LossScale)
                     id    == prev.seq.material_type + 1
                     drawn == [prev EXCEPT !.seq.material_type = id]
                 IN  IF prev.exc # "" THEN prev
                     ELSE IF loss.st = "raise"
                     THEN [prev EXCEPT !.exc = "InvalidOperation"]
                     ELSE IF loss.st = "none"
                     THEN [prev EXCEPT !.exc = "TypeError"]
                     ELSE IF ~n.ok
                     THEN [drawn EXCEPT !.exc = "DataError"]
                     ELSE IF \E r \in prev.material_type : r.name = name
                     THEN [drawn EXCEPT !.material_type =
                              {IF r.name = name THEN [r EXCEPT !.loss_percent = n.v] ELSE r :
                                   r \in prev.material_type}]
                     ELSE [drawn EXCEPT !.material_type =
                              prev.material_type
                              \cup {[id |-> id, name |-> name, loss_percent |-> n.v]}]
    IN  after[Len(sheet)]

\* import_workshops: the workshop types of the sheet are inserted in sorted
\* order, those already there left alone (DO NOTHING); then every row
\* [workshop_name, workshop_type, workers] is upserted on the workshop name.
\* workers is int(float(text)) of a text of a few digits.
import_workshops(conn, sheet) ==
    LET raw          == {sheet[k].workshop_type : k \in 1..Len(sheet)}
        Rank(x)      == Cardinality({y \in raw : TextLess(y, x)}) + 1
        types        == conn.workshop_type
                        \cup {[id |-> conn.seq.workshop_type + Rank(x), name |-> Strip(x)] :
                                 x \in {x \in raw :
                                           /\ \A r \in conn.workshop_type : r.name # Strip(x)
                                           /\ \A y \in raw : Rank(y) < Rank(x)
                                                             => Strip(y) # Strip(x)}}
        typed        == [conn EXCEPT !.workshop_type = types,
                                     !.seq.workshop_type = @ + Cardinality(raw)]
        after[k \in 0..Len(sheet)] ==
            IF k = 0 THEN typed
            ELSE LET prev    == after[k - 1]
                     wt_name == Strip(sheet[k].workshop_type)
                     ws_name == Strip(sheet[k].workshop_name)
                     cell    == Strip(sheet[k].workers)
                     text    == [i \in 1..Len(cell) |->
                                    IF cell[i] = "," THEN "." ELSE cell[i]]
                     f       == DecimalFromText(SubSeq(text, 1, Len(text)))
                     wts     == {r \in prev.workshop_type : r.name = wt_name}
                     wt_id   == (CHOOSE r \in wts : TRUE).id
                     id      == prev.seq.workshop + 1
                     drawn   == [prev EXCEPT !.seq.workshop = id]
                 IN  IF prev.exc # "" THEN prev
                     ELSE IF ~f.ok \/ f.d.kind = "nan"
                     THEN [prev EXCEPT !.exc = "ValueError"]
                     ELSE IF f.d.kind = "inf"
                     THEN [prev EXCEPT !.exc = "OverflowError"]
                     ELSE IF wts = {}
                     THEN [prev EXCEPT !.exc = "NoResultFound"]
                     ELSE IF \E r \in prev.workshop : r.name = ws_name
                     THEN [drawn EXCEPT !.workshop =
                              {IF r.name = ws_name
                               THEN [r EXCEPT !.workshop_type_id = wt_id,
                                              !.workers_required = TruncToInt(f.d)]
                               ELSE r : r \in prev.workshop}]
                     ELSE [drawn EXCEPT !.workshop =
                              prev.workshop
                              \cup {[id |-> id, name |-> ws_name, workshop_type_id |-> wt_id,
                                     workers_required |-> TruncToInt(f.d)]}]
    IN  IF conn.exc # "" THEN conn ELSE after[Len(sheet)]

\* import_products: every row [product_type, name, article, min_price,
\* material_type] looks its two types up by name (scalar_one raises where
\* there is none) and is upserted on the article. The name is unique too,
\* and no ON CONFLICT answers for it.
import_products(conn, sheet) ==
    LET after[k \in 0..Len(sheet)] ==
            IF k = 0 THEN conn
            ELSE LET prev  == after[k - 1]
                     pts   == {r \in prev.product_type :
                                  r.name = Strip(sheet[k].product_type)}
                     mts   == {r \in prev.material_type :
                                  r.name = Strip(sheet[k].material_type)}
                     price == to_decimal_ru(sheet[k].min_price)
                     n     == Numeric(price.d, 12, PriceScale)
                     id    == prev.seq.product + 1
                     drawn == [prev EXCEPT !.seq.product = id]
                     old   == {r \in prev.product : r.article = Strip(sheet[k].article)}
                     row   == [id |-> IF old = {} THEN id ELSE (CHOOSE r \in old : TRUE).id,
                               name |-> Strip(sheet[k].name),
                               article |-> Strip(sheet[k].article),
                               product_type_id |-> (CHOOSE r \in pts : TRUE).id,
                               material_type_id |-> (CHOOSE r \in mts : TRUE).id,
                               min_partner_price |-> n.v]
                 IN  IF prev.exc # "" THEN prev
                     ELSE IF pts = {} \/ mts = {}
                     THEN [prev EXCEPT !.exc = "NoResultFound"]
                     ELSE IF price.st = "raise"
                     THEN [prev EXCEPT !.exc = "InvalidOperation"]
                     ELSE IF price.st = "none"
                     THEN [drawn EXCEPT !.exc = "IntegrityError"]
                     ELSE IF ~n.ok
                     THEN [drawn EXCEPT !.exc = "DataError"]
                     ELSE IF \E r \in prev.product \ old : r.name = row.name
                     THEN [drawn EXCEPT !.exc = "IntegrityError"]
                     ELSE [drawn EXCEPT !.product = (prev.product \ old) \cup {row}]
    IN  after[Len(sheet)]

\* import_product_workshops: every row [product_name, workshop_name,
\* time_hours] looks its product and its workshop up by name (scalar_one
\* raises where there is none) and is upserted on (product_id, workshop_id).
ImportProductWorkshops(conn, sheet) ==
    LET after[k \in 0..Len(sheet)] ==
            IF k = 0 THEN conn
            ELSE LET prev  == after[k - 1]
                     prods == {p \in prev.product : p.name = Strip(sheet[k].product_name)}
                     wss   == {w \in prev.workshop : w.name = Strip(sheet[k].workshop_name)}
                     t     == to_decimal_ru(sheet[k].time_hours)
                     n     == Numeric(t.d, 6, HoursScale)
                     pid   == (CHOOSE p \in prods : TRUE).id
                     wid   == (CHOOSE w \in wss : TRUE).id
                 IN  IF prev.exc # "" THEN prev
                     ELSE IF prods = {} \/ wss = {}
                     THEN [prev EXCEPT !.exc = "NoResultFound"]
                     ELSE IF t.st = "raise"
                     THEN [prev EXCEPT !.exc = "InvalidOperation"]
                     ELSE IF t.st = "none"
                     THEN [prev EXCEPT !.exc = "IntegrityError"]
                     ELSE IF ~n.ok
                     THEN [prev EXCEPT !.exc = "DataError"]
                     ELSE [prev EXCEPT !.product_workshop =
                              {l \in prev.product_workshop :
                                  l.product_id # pid \/ l.workshop_id # wid}
                              \cup {[product_id |-> pid, workshop_id |-> wid,
                                     production_time_hours |-> n.v]}]
    IN  after[Len(sheet)]

\* A run of the loader whose other four sheets have no rows: the sheet of
\* the links is imported and committed, or an exception ends the script with
\* nothing committed.
import_product_workshops(sheet) ==
    /\ LET end == ImportProductWorkshops(
                      [product |-> product, workshop |-> workshop,
                       product_workshop |-> product_workshop, exc |-> ""], sheet)
       IN  /\ product_workshop' = IF end.exc = "" THEN end.product_workshop
                                  ELSE product_workshop
           /\ resp' = Response("import_product_workshops",
                               IF end.exc = "" THEN 0 ELSE 1, end.exc, {})
    /\ UNCHANGED <<product_type, material_type, workshop_type, workshop,
                   product, product_id_seq, workshop_id_seq>>

-----------------------------------------------------------------------------
(* The views that total the production time (app/main.py).                  *)

\* SUM(production_time_hours) over link rows: NUMERIC, exact, in 1/100.
RECURSIVE SumHours(_)
SumHours(links) ==
    IF links = {} THEN 0
    ELSE LET l == CHOOSE x \in links : TRUE
         IN  l.production_time_hours + SumHours(links \ {l})

ProductTypeName(p) == (CHOOSE r \in GetProductType(p.product_type_id) : TRUE).name

MaterialTypeName(p) == (CHOOSE r \in GetMaterialType(p.material_type_id) : TRUE).name

\* The products an inner join with the links would leave.
CardRowsInnerJoin ==
    {p \in product : /\ GetProductType(p.product_type_id) # {}
                     /\ GetMaterialType(p.material_type_id) # {}
                     /\ ProductLinks(p.id) # {}}

\* The groups of the query of list_product_cards: the products joined with
\* their types; the links are joined by an outer join.
CardRows ==
    {p \in product : /\ GetProductType(p.product_type_id) # {}
                     /\ GetMaterialType(p.material_type_id) # {}}

\* order_by(Product.name) alone
CardBeforeByProductName(p, q) == TextLess(p.name, q.name)

\* order_by(ProductType.name, Product.name)
CardBefore(p, q) ==
    \/ TextLess(ProductTypeName(p), ProductTypeName(q))
    \/ ProductTypeName(p) = ProductTypeName(q) /\ TextLess(p.name, q.name)

\* int(ceil(float(row.total_hours or 0.0))) with total_hours the coalesced sum
ProductCard(p) ==
    [id |-> p.id, product_type |-> ProductTypeName(p), name |-> p.name,
     article |-> p.article, min_partner_price |-> p.min_partner_price,
     material_type |-> MaterialTypeName(p),
     production_time_hours |->
         FloatCeil(FloatFromScaled(SumHours(ProductLinks(p.id)), HoursScale))]

\* The cards in the order of the query.
ProductCards ==
    [i \in 1..Cardinality(CardRows) |->
        ProductCard(CHOOSE p \in CardRows :
                        Cardinality({q \in CardRows : CardBefore(q, p)}) = i - 1)]

\* No request made yet.
NoRequest == [op |-> "none"]

\* A card view that rounds the hours of the links it has loaded up to whole
\* hours in place, and whose session commits them.
list_product_cards_rounding_in_place ==
    /\ resp = NoRequest
    /\ resp' = [op |-> "list_product_cards", status |-> 200, body |-> ProductCards]
    /\ product_workshop' =
           {[l EXCEPT !.production_time_hours = ((@ + 99) \div 100) * 100] :
               l \in product_workshop}
    /\ UNCHANGED <<product_type, material_type, workshop_type, workshop,
                   product, product_id_seq, workshop_id_seq>>

\* GET /product-cards
list_product_cards ==
    /\ resp = NoRequest
    /\ resp' = [op |-> "list_product_cards", status |-> 200, body |-> ProductCards]
    /\ UNCHANGED <<product_type, material_type, workshop_type, workshop,
                   product, product_workshop, product_id_seq, workshop_id_seq>>

WorkshopName(l) == (CHOOSE r \in GetWorkshop(l.workshop_id) : TRUE).name

\* The links of a product, order_by(Workshop.name).
LinksByWorkshopName(product_id) ==
    LET links == {l \in ProductLinks(product_id) : GetWorkshop(l.workshop_id) # {}}
    IN  [i \in 1..Cardinality(links) |->
            CHOOSE l \in links :
                Cardinality({k \in links :
                    TextLess(WorkshopName(k), WorkshopName(l))}) = i - 1]

\* GET /ui/products/{product_id}/workshops: the hours are made floats one by
\* one and totalled by sum().
ui_product_workshops(product_id) ==
    /\ resp = NoRequest
    /\ LET links == LinksByWorkshopName(product_id)
           hours == [i \in 1..Len(links) |->
                        FloatFromScaled(links[i].production_time_hours, HoursScale)]
       IN  IF GetProduct(product_id) = {}
           THEN resp' = [op |-> "ui_product_workshops", status |-> 303,
                         detail |-> "product_not_found", product_id |-> product_id,
                         links |-> <<>>, total_hours |-> 0]
           ELSE \E total_hours_float \in FloatSums(hours) :
                    resp' = [op |-> "ui_product_workshops", status |-> 200,
                             detail |-> "", product_id |-> product_id,
                             links |-> links,
                             total_hours |-> FloatCeil(total_hours_float)]
    /\ UNCHANGED <<product_type, material_type, workshop_type, workshop,
                   product, product_workshop, product_id_seq, workshop_id_seq>>

-----------------------------------------------------------------------------
(* The read endpoints of the JSON API (app/main.py).                        *)

\* What a read answers: the rows, or the detail of the HTTPException.
ReadResponse(op, status, detail, body) ==
    [op |-> op, status |-> status, detail |-> detail, body |-> body]

\* query.order_by(name).all(): the rows in the order of their names, which
\* are unique in every table.
RowsByName(rows) ==
    [i \in 1..Cardinality(rows) |->
        CHOOSE r \in rows :
            Cardinality({q \in rows : TextLess(q.name, r.name)}) = i - 1]

\* query.all() without order_by, and a relationship collection: the database
\* returns the rows in an order it does not promise, any of these.
RowsInAnyOrder(rows) ==
    {s \in [1..Cardinality(rows) -> rows] : \A r \in rows : \E i \in DOMAIN s : s[i] = r}

\* GET /product-types
list_product_types ==
    /\ resp = NoRequest
    /\ resp' = ReadResponse("list_product_types", 200, "", RowsByName(product_type))
    /\ UNCHANGED <<product_type, material_type, workshop_type, workshop,
                   product, product_workshop, product_id_seq, workshop_id_seq>>

\* GET /material-types
list_material_types ==
    /\ resp = NoRequest
    /\ resp' = ReadResponse("list_material_types", 200, "", RowsByName(material_type))
    /\ UNCHANGED <<product_type, material_type, workshop_type, workshop,
                   product, product_workshop, product_id_seq, workshop_id_seq>>

\* GET /workshop-types
list_workshop_types ==
    /\ resp = NoRequest
    /\ resp' = ReadResponse("list_workshop_types", 200, "", RowsByName(workshop_type))
    /\ UNCHANGED <<product_type, material_type, workshop_type, workshop,
                   product, product_workshop, product_id_seq, workshop_id_seq>>

\* GET /workshops: db.query(models.Workshop).all()
list_workshops ==
    /\ resp = NoRequest
    /\ \E rows \in RowsInAnyOrder(workshop) :
           resp' = ReadResponse("list_workshops", 200, "", rows)
    /\ UNCHANGED <<product_type, material_type, workshop_type, workshop,
                   product, product_workshop, product_id_seq, workshop_id_seq>>

\* GET /products: db.query(models.Product).all()
list_products ==
    /\ resp = NoRequest
    /\ \E rows \in RowsInAnyOrder(product) :
           resp' = ReadResponse("list_products", 200, "", rows)
    /\ UNCHANGED <<product_type, material_type, workshop_type, workshop,
                   product, product_workshop, product_id_seq, workshop_id_seq>>

\* GET /workshops/{workshop_id}
get_workshop(workshop_id) ==
    /\ resp = NoRequest
    /\ resp' = IF GetWorkshop(workshop_id) = {}
               THEN ReadResponse("get_workshop", 404, "Workshop not found", <<>>)
               ELSE ReadResponse("get_workshop", 200, "",
                                 <<CHOOSE ws \in GetWorkshop(workshop_id) : TRUE>>)
    /\ UNCHANGED <<product_type, material_type, workshop_type, workshop,
                   product, product_workshop, product_id_seq, workshop_id_seq>>

\* GET /products/{product_id}
get_product(product_id) ==
    /\ resp = NoRequest
    /\ resp' = IF GetProduct(product_id) = {}
               THEN ReadResponse("get_product", 404, "Product not found", <<>>)
               ELSE ReadResponse("get_product", 200, "",
                                 <<CHOOSE prod \in GetProduct(product_id) : TRUE>>)
    /\ UNCHANGED <<product_type, material_type, workshop_type, workshop,
                   product, product_workshop, product_id_seq, workshop_id_seq>>

\* product.workshops returned without a look at the product.
get_product_workshops_unchecked(product_id) ==
    /\ resp = NoRequest
    /\ \E rows \in RowsInAnyOrder(ProductLinks(product_id)) :
           resp' = ReadResponse("get_product_workshops", 200, "", rows)
    /\ UNCHANGED <<product_type, material_type, workshop_type, workshop,
                   product, product_workshop, product_id_seq, workshop_id_seq>>

\* GET /products/{product_id}/workshops: the collection product.workshops
get_product_workshops(product_id) ==
    /\ resp = NoRequest
    /\ IF GetProduct(product_id) = {}
       THEN resp' = ReadResponse("get_product_workshops", 404, "Product not found", <<>>)
       ELSE \E rows \in RowsInAnyOrder(ProductLinks(product_id)) :
                resp' = ReadResponse("get_product_workshops", 200, "", rows)
    /\ UNCHANGED <<product_type, material_type, workshop_type, workshop,
                   product, product_workshop, product_id_seq, workshop_id_seq>>

\* GET /ui/products/{product_id}/edit: the form with the product's fields,
\* or a redirect to the list.
ui_product_edit(product_id) ==
    /\ resp = NoRequest
    /\ resp' = IF GetProduct(product_id) = {}
               THEN ReadResponse("ui_product_edit", 303, "product_not_found", <<>>)
               ELSE ReadResponse("ui_product_edit", 200, "",
                                 <<CHOOSE prod \in GetProduct(product_id) : TRUE>>)
    /\ UNCHANGED <<product_type, material_type, workshop_type, workshop,
                   product, product_workshop, product_id_seq, workshop_id_seq>>

\* GET /ui/workshops/{workshop_id}/edit
ui_workshop_edit(workshop_id) ==
    /\ resp = NoRequest
    /\ resp' = IF GetWorkshop(workshop_id) = {}
               THEN ReadResponse("ui_workshop_edit", 303, "workshop_not_found", <<>>)
               ELSE ReadResponse("ui_workshop_edit", 200, "",
                                 <<CHOOSE ws \in GetWorkshop(workshop_id) : TRUE>>)
    /\ UNCHANGED <<product_type, material_type, workshop_type, workshop,
                   product, product_workshop, product_id_seq, workshop_id_seq>>

\* POST /calculate-raw-material: the body has passed the schema, quantity
\* is an int and the parameters are floats, given by their repr. The
\* function has the session only to read the two types; an exception that
\* leaves it is answered with 500.
calculate_raw_material_endpoint(body) ==
    /\ resp = NoRequest
    /\ LET result == calculate_raw_material_amount(
                         body.product_type_id, body.material_type_id,
                         [t |-> "int", v |-> body.quantity], body.param1, body.param2)
       IN  resp' = ReadResponse("calculate_raw_material_endpoint",
                                IF result.kind = "return" THEN 200 ELSE 500,
                                result.exc, result.value)
    /\ UNCHANGED <<product_type, material_type, workshop_type, workshop,
                   product, product_workshop, product_id_seq, workshop_id_seq>>

-----------------------------------------------------------------------------
(* The requests of the store: Spec. The store starts with the reference     *)
(* tables loaded and no product or workshop.                                *)

ProductNames == { <<"B", "e", "d">>, <<"C", "o", "t">> }

Articles == { <<"A", "1">>, <<"A", "2">> }

WorkshopNames == { <<"S", "a", "w">>, <<"D", "y", "e">> }

IdInputs == (1..MaxId) \cup {MissingId}

ProductCreateInputs ==
    {[name |-> n, article |-> a, product_type_id |-> t[1],
      material_type_id |-> t[2], min_partner_price |-> 10000] :
        n \in ProductNames, a \in Articles,
        t \in {<<1, 1>>, <<MissingId, 1>>, <<1, MissingId>>}}

ProductUpdateInputs ==
    {[name |-> n] : n \in ProductNames} \cup {[product_type_id |-> MissingId]}

WorkshopCreateInputs ==
    [name : WorkshopNames, workshop_type_id : {1, MissingId}, workers_required : {3}]

WorkshopUpdateInputs ==
    {[name |-> n] : n \in WorkshopNames} \cup {[workshop_type_id |-> MissingId]}

\* production_time_hours is any Decimal of the body: 1.20, or -1.50.
LinkCreateInputs == [workshop_id : {1, MissingId}, production_time_hours : {120, -150}]

LinkUpdateInputs == { [production_time_hours |-> 130] }

\* Sheets of one or two rows: a link, the same link twice with different
\* hours, a link with negative hours, and a row of a product no one has.
LinkSheets ==
    LET Row(p, w, t) == [product_name |-> p, workshop_name |-> w, time_hours |-> t]
        r1 == Row(<<"B", "e", "d">>, <<"S", "a", "w">>, <<"1", ",", "2">>)
        r2 == Row(<<"B", "e", "d">>, <<"S", "a", "w">>, <<"1", ",", "3", "0">>)
        r3 == Row(<<"C", "o", "t", " ">>, <<"S", "a", "w">>, <<"-", "1", ",", "5">>)
        r4 == Row(<<"E", "l", "m">>, <<"S", "a", "w">>, <<"1">>)
    IN  { <<r1>>, <<r1, r2>>, <<r3>>, <<r1, r4>> }

ProductForm(id, name, article, product_type_id, min_partner_price) ==
    [id |-> id, name |-> name, article |-> article,
     product_type_id |-> product_type_id, material_type_id |-> <<"1">>,
     min_partner_price |-> min_partner_price]

\* The new-product form and the edit form of product 1 with good fields, and
\* one form for every way a field can be bad.
ProductFormInputs ==
    {ProductForm(id, name, article, <<"1">>, <<"1", "0", "0", ",", "0", "0">>) :
        id \in { <<>>, <<"1">> },
        name \in { <<"B", "e", "d">>, <<" ", "C", "o", "t", " ">> },
        article \in Articles}
    \cup
    {ProductForm(<<>>, <<" ">>, <<"A", "1">>, <<"1">>, <<"1">>),
     ProductForm(<<>>, <<"B", "e", "d">>, <<>>, <<"1">>, <<"1">>),
     ProductForm(<<>>, <<"B", "e", "d">>, <<"A", "1">>, <<"0">>, <<"1">>),
     ProductForm(<<>>, <<"B", "e", "d">>, <<"A", "1">>, <<"9">>, <<"1">>),
     ProductForm(<<>>, <<"B", "e", "d">>, <<"A", "1">>, <<"1">>, <<"-", "1">>),
     ProductForm(<<>>, <<"B", "e", "d">>, <<"A", "1">>, <<"1">>, <<"n", "a", "n">>),
     ProductForm(<<"x">>, <<"B", "e", "d">>, <<"A", "1">>, <<"1">>, <<"1">>),
     ProductForm(<<"1">>, <<"E", "l", "m">>, <<"A", "3">>, <<"1">>, <<"1", "x">>),
     ProductForm(<<"1">>, <<"E", "l", "m">>, <<"A", "3">>, <<"1">>, <<"-", "0", ",", "5">>),
     ProductForm(<<"1">>, <<"E", "l", "m">>, <<"A", "3">>, <<"1", ".", "0">>, <<"1">>)}

WorkshopForm(id, name, workshop_type_id, workers_required) ==
    [id |-> id, name |-> name, workshop_type_id |-> workshop_type_id,
     workers_required |-> workers_required]

\* The new-workshop form and the edit form of workshop 1 with good fields,
\* and forms with one bad field each, new and edit.
WorkshopFormInputs ==
    {WorkshopForm(<<>>, <<"S", "a", "w">>, <<"1">>, <<"3">>),
     WorkshopForm(<<"1">>, <<" ", "D", "y", "e">>, <<"1">>, <<"3">>),
     WorkshopForm(<<>>, <<" ">>, <<"1">>, <<"3">>),
     WorkshopForm(<<>>, <<"S", "a", "w">>, <<"x">>, <<"3">>),
     WorkshopForm(<<>>, <<"S", "a", "w">>, <<"9">>, <<"3">>),
     WorkshopForm(<<>>, <<"S", "a", "w">>, <<"1">>, <<"0">>),
     WorkshopForm(<<"1">>, <<"F", "i", "t">>, <<"1">>, <<"-", "2">>),
     WorkshopForm(<<"1">>, <<"F", "i", "t">>, <<"1">>, <<>>),
     WorkshopForm(<<"1">>, <<>>, <<"1">>, <<"3">>),
     WorkshopForm(<<"x">>, <<"S", "a", "w">>, <<"1">>, <<"3">>)}

Init ==
    /\ product_type = ProductTypeRows
    /\ material_type = MaterialTypeRows
    /\ workshop_type = WorkshopTypeRows
    /\ workshop = {}
    /\ product = {}
    /\ product_workshop = {}
    /\ product_id_seq = 0
    /\ workshop_id_seq = 0
    /\ resp = NoRequest

Next ==
    \/ \E ws \in WorkshopCreateInputs : create_workshop(ws)
    \/ \E id \in IdInputs, upd \in WorkshopUpdateInputs : update_workshop(id, upd)
    \/ \E id \in IdInputs : delete_workshop(id)
    \/ \E prod \in ProductCreateInputs : create_product(prod)
    \/ \E id \in IdInputs, upd \in ProductUpdateInputs : update_product(id, upd)
    \/ \E id \in IdInputs : delete_product(id)
    \/ \E id \in IdInputs, body \in LinkCreateInputs : add_product_workshop(id, body)
    \/ \E id \in IdInputs, wid \in IdInputs, body \in LinkUpdateInputs :
           update_product_workshop(id, wid, body)
    \/ \E id \in IdInputs, wid \in IdInputs : delete_product_workshop(id, wid)
    \/ \E id \in IdInputs : ui_product_delete(id)
    \/ \E id \in IdInputs : ui_workshop_delete(id)
    \/ \E sheet \in LinkSheets : import_product_workshops(sheet)

Spec == Init /\ [][Next]_vars

\* The two forms beside the JSON requests on products: SpecForms.
NextForms ==
    \/ \E form \in ProductFormInputs : ui_product_save(form)
    \/ \E form \in WorkshopFormInputs : ui_workshop_save(form)
    \/ \E id \in IdInputs : ui_product_delete(id)
    \/ \E prod \in ProductCreateInputs : create_product(prod)
    \/ \E id \in IdInputs, upd \in ProductUpdateInputs : update_product(id, upd)
    \/ \E id \in IdInputs : delete_product(id)

SpecForms == Init /\ [][NextForms]_vars

-----------------------------------------------------------------------------
(* Two create requests in flight at once: SpecConc. Every request has its   *)
(* own session and transaction (get_db); the tables are the committed rows. *)
(* db.commit() of a create handler first flushes the INSERT and then        *)
(* commits, and the other request may run between the two. The unique       *)
(* indexes of models.py are the database's: an INSERT whose key is held by  *)
(* a row another transaction has inserted and not yet committed waits for   *)
(* that transaction; one whose key a committed row holds fails with an      *)
(* IntegrityError. resp holds the two requests, each                        *)
(* [kind, body, pc, row, status, detail]; pc is the step it is to take.     *)

\* The requests request i may be: a product, a workshop, or a link of
\* product 1 with workshop 1. The hours tell the links of the two requests
\* apart.
ConcRequests(i) ==
    {[kind |-> "create_product",
      body |-> [name |-> n, article |-> a, product_type_id |-> 1,
                material_type_id |-> 1, min_partner_price |-> 10000],
      pc |-> "flush", row |-> <<>>, status |-> 0, detail |-> ""] :
        n \in ProductNames, a \in Articles}
    \cup {[kind |-> "create_workshop",
           body |-> [name |-> n, workshop_type_id |-> 1, workers_required |-> 3],
           pc |-> "flush", row |-> <<>>, status |-> 0, detail |-> ""] :
             n \in WorkshopNames}
    \cup {[kind |-> "add_product_workshop",
           body |-> [product_id |-> 1, workshop_id |-> 1,
                     production_time_hours |-> 110 + 10 * i],
           pc |-> "get", row |-> <<>>, status |-> 0, detail |-> ""]}

\* The row request r inserts, with the id it drew where the table has one.
ConcRow(r) ==
    CASE r.kind = "create_product" ->
             [id |-> product_id_seq + 1, name |-> r.body.name,
              article |-> r.body.article, product_type_id |-> r.body.product_type_id,
              material_type_id |-> r.body.material_type_id,
              min_partner_price |-> r.body.min_partner_price]
      [] r.kind = "create_workshop" ->
             [id |-> workshop_id_seq + 1, name |-> r.body.name,
              workshop_type_id |-> r.body.workshop_type_id,
              workers_required |-> r.body.workers_required]
      [] OTHER -> r.body

\* The rows of a and b, of one table, hold the same value of a unique key.
ConcSameKey(kind, a, b) ==
    CASE kind = "create_product"  -> a.name = b.name \/ a.article = b.article
      [] kind = "create_workshop" -> a.name = b.name
      [] OTHER -> a.product_id = b.product_id /\ a.workshop_id = b.workshop_id

\* No INSERT waits for an uncommitted row.
ConcWaitsNever(i) == FALSE

\* The INSERT of request i waits: the other request has flushed a row with
\* the same key and has not committed it.
ConcWaits(i) ==
    LET r == resp.req[i]
        o == resp.req[3 - i]
    IN  /\ o.pc = "commit"
        /\ o.kind = r.kind
        /\ ConcSameKey(r.kind, ConcRow(r), o.row)

InitConc ==
    /\ product_type = ProductTypeRows
    /\ material_type = MaterialTypeRows
    /\ workshop_type = WorkshopTypeRows
    /\ workshop = {[id |-> 1, name |-> <<"S", "a", "w">>, workshop_type_id |-> 1,
                    workers_required |-> 3]}
    /\ product = {[id |-> 1, name |-> <<"B", "e", "d">>, article |-> <<"A", "1">>,
                   product_type_id |-> 1, material_type_id |-> 1,
                   min_partner_price |-> 10000]}
    /\ product_workshop = {}
    /\ product_id_seq = 1
    /\ workshop_id_seq = 1
    /\ resp \in {[op |-> "concurrent", req |-> <<a, b>>] :
                    a \in ConcRequests(1), b \in ConcRequests(2)}

\* add_product_workshop, lines 338-344: the product and the workshop are
\* looked up among the committed rows.
session_get(i) ==
    LET r == resp.req[i]
    IN  /\ resp.op = "concurrent"
        /\ r.pc = "get"
        /\ resp' = [resp EXCEPT !.req[i] =
               IF GetProduct(r.body.product_id) = {}
               THEN [r EXCEPT !.pc = "done", !.status = 404, !.detail = "Product not found"]
               ELSE IF GetWorkshop(r.body.workshop_id) = {}
               THEN [r EXCEPT !.pc = "done", !.status = 404, !.detail = "Workshop not found"]
               ELSE [r EXCEPT !.pc = "flush"]]
        /\ UNCHANGED <<product_type, material_type, workshop_type, workshop,
                       product, product_workshop, product_id_seq, workshop_id_seq>>

\* The first half of db.commit(): the INSERT. It draws the id, and it fails
\* at once, is rolled back and answered with 400, where a committed row
\* holds its key.
session_flush(i) ==
    LET r   == resp.req[i]
        row == ConcRow(r)
        bad == CASE r.kind = "create_product"  -> ProductViolations(row, product)
                 [] r.kind = "create_workshop" -> WorkshopViolations(row, workshop)
                 [] OTHER -> LinkViolations(row, product_workshop)
        msg == CASE r.kind = "create_product" ->
                        "Product with this article or name already exists"
                 [] r.kind = "create_workshop" ->
                        "Workshop with this name already exists"
                 [] OTHER -> "This workshop is already linked to the product"
    IN  /\ resp.op = "concurrent"
        /\ r.pc = "flush"
        /\ ~ConcWaits(i)
        /\ product_id_seq' = IF r.kind = "create_product"
                              THEN product_id_seq + 1 ELSE product_id_seq
        /\ workshop_id_seq' = IF r.kind = "create_workshop"
                               THEN workshop_id_seq + 1 ELSE workshop_id_seq
        /\ resp' = [resp EXCEPT !.req[i] =
               IF bad # {}
               THEN [r EXCEPT !.pc = "done", !.status = 400, !.detail = msg]
               ELSE [r EXCEPT !.pc = "commit", !.row = row]]
        /\ UNCHANGED <<product_type, material_type, workshop_type, workshop,
                       product, product_workshop>>

\* The second half of db.commit(): the row is committed, the answer is 201.
session_commit(i) ==
    LET r == resp.req[i]
    IN  /\ resp.op = "concurrent"
        /\ r.pc = "commit"
        /\ product' = IF r.kind = "create_product" THEN product \cup {r.row} ELSE product
        /\ workshop' = IF r.kind = "create_workshop" THEN workshop \cup {r.row} ELSE workshop
        /\ product_workshop' = IF r.kind = "add_product_workshop"
                                THEN product_workshop \cup {r.row} ELSE product_workshop
        /\ resp' = [resp EXCEPT !.req[i] = [r EXCEPT !.pc = "done", !.status = 201]]
        /\ UNCHANGED <<product_type, material_type, workshop_type,
                       product_id_seq, workshop_id_seq>>

NextConc ==
    \E i \in {1, 2} :
        \/ session_get(i)
        \/ session_flush(i)
        \/ session_commit(i)

SpecConc == InitConc /\ [][NextConc]_vars

-----------------------------------------------------------------------------
(* Runs of the loader, one after another, on an empty database: SpecLoad.   *)
(* resp holds the script's position: pc is "probe" inside the loop that     *)
(* waits for the database, "import" once a probe has succeeded, "done"      *)
(* after "Import finished." and "failed" after an exception, named by exc;  *)
(* attempt counts the probes of the run, files are the sheets read by the   *)
(* last import that got its connection, and seq holds the id sequences of   *)
(* the three type tables.                                                   *)

\* range(10)
Attempts == 10

\* The loader is run this many times at most.
MaxRuns == 3

\* The five sheets of a run. A good set; a set that renames and reprices
\* what the first holds and adds rows; a product of an unknown type; a link
\* of an unknown product; the product of the first set under another
\* article; a material with an empty loss.
LoadFiles ==
    LET Files(pt, mt, ws, pr, lk) ==
            [product_types |-> pt, material_types |-> mt, workshops |-> ws,
             products |-> pr, product_workshops |-> lk]
        Pt(n, c) == [name |-> n, coefficient |-> c]
        Mt(n, l) == [name |-> n, loss |-> l]
        Ws(n, t, w) == [workshop_name |-> n, workshop_type |-> t, workers |-> w]
        Pr(t, n, a, p, m) == [product_type |-> t, name |-> n, article |-> a,
                              min_price |-> p, material_type |-> m]
        Lk(p, w, t) == [product_name |-> p, workshop_name |-> w, time_hours |-> t]
        Beds   == <<"B", "e", "d", "s">>
        Oak    == <<"O", "a", "k">>
        Bed    == <<"B", "e", "d">>
        Saw    == <<"S", "a", "w">>
        Join   == <<"J", "o", "i", "n", "e", "r", "y">>
        pt1    == << Pt(Beds, <<"1", ",", "5">>) >>
        mt1    == << Mt(Oak, <<"0", ",", "8", "%">>) >>
        ws1    == << Ws(Saw, Join, <<"3">>) >>
        pr1    == << Pr(Beds, Bed, <<"A", "1">>, <<"1", "0", "0", ",", "5", "0">>, Oak) >>
        lk1    == << Lk(Bed, Saw, <<"1", ",", "2">>) >>
    IN  { Files(pt1, mt1, ws1, pr1, lk1),
          Files(<< Pt(Beds, <<" ", "2">>), Pt(<<"S", "o", "f", "a", "s">>, <<"1">>) >>,
                << Mt(Oak, <<"5">>), Mt(<<"A", "s", "h">>, <<"1", "2", ",", "5", " ", "%">>) >>,
                << Ws(Saw, <<"P", "a", "i", "n", "t">>, <<"4">>),
                   Ws(<<"D", "y", "e", " ">>, Join, <<"2", ",", "0">>) >>,
                << Pr(<<"S", "o", "f", "a", "s">>, Bed, <<"A", "1">>,
                      <<"1", " ", "2", "0", "0">>, Oak),
                   Pr(Beds, <<"C", "o", "t">>, <<"A", "2">>, <<"5", "0">>, <<"A", "s", "h">>) >>,
                << Lk(Bed, Saw, <<"1", ",", "3", "0">>),
                   Lk(<<"C", "o", "t">>, <<"D", "y", "e">>, <<"2">>) >>),
          Files(pt1, mt1, ws1,
                << Pr(<<"C", "h", "a", "i", "r", "s">>, Bed, <<"A", "1">>, <<"1", "0", "0">>, Oak) >>,
                lk1),
          Files(pt1, mt1, ws1, pr1, lk1 \o << Lk(<<"E", "l", "m">>, Saw, <<"1">>) >>),
          Files(pt1, mt1, ws1,
                << Pr(Beds, Bed, <<"A", "9">>, <<"1", "0", "0", ",", "5", "0">>, Oak) >>,
                lk1),
          Files(pt1, << Mt(Oak, <<" ">>) >>, ws1, pr1, lk1) }

InitLoad ==
    /\ product_type = {}
    /\ material_type = {}
    /\ workshop_type = {}
    /\ workshop = {}
    /\ product = {}
    /\ product_workshop = {}
    /\ product_id_seq = 0
    /\ workshop_id_seq = 0
    /\ resp = [op |-> "main", pc |-> "probe", attempt |-> 0, run |-> 1, exc |-> "",
               files |-> [product_types |-> <<>>, material_types |-> <<>>,
                          workshops |-> <<>>, products |-> <<>>,
                          product_workshops |-> <<>>],
               seq |-> [product_type |-> 0, material_type |-> 0, workshop_type |-> 0]]

\* A loop that waits for the database for as long as it takes.
main_connect_unbounded(ok) ==
    /\ resp.pc = "probe"
    /\ resp' = [resp EXCEPT !.attempt = @ + 1,
                            !.pc = IF ok THEN "import" ELSE "probe"]
    /\ UNCHANGED <<product_type, material_type, workshop_type, workshop, product,
                   product_workshop, product_id_seq, workshop_id_seq>>

\* One turn of the loop of main that waits for the database: SELECT 1 on a
\* new connection succeeds (ok) and the loop is left, or raises; the tenth
\* failure ends the script with RuntimeError. The first probe of a later run
\* of the script is made from "done" or "failed".
main_connect(ok) ==
    /\ resp.op = "main"
    /\ resp.pc # "import"
    /\ LET fresh == resp.pc # "probe"
           made  == IF fresh THEN 1 ELSE resp.attempt + 1
       IN  /\ fresh => resp.run < MaxRuns
           /\ ~fresh => resp.attempt < Attempts
           /\ resp' = [resp EXCEPT
                          !.run = IF fresh THEN @ + 1 ELSE @,
                          !.attempt = made,
                          !.pc = IF ok THEN "import"
                                 ELSE IF made = Attempts THEN "failed" ELSE "probe",
                          !.exc = IF ~ok /\ made = Attempts THEN "RuntimeError" ELSE ""]
    /\ UNCHANGED <<product_type, material_type, workshop_type, workshop, product,
                   product_workshop, product_id_seq, workshop_id_seq>>

\* An import over a connection that commits every statement as it is made.
main_import_autocommit(files, up) ==
    /\ resp.op = "main"
    /\ resp.pc = "import"
    /\ LET conn == [product_type |-> product_type, material_type |-> material_type,
                    workshop_type |-> workshop_type, workshop |-> workshop,
                    product |-> product, product_workshop |-> product_workshop,
                    seq |-> [product_type |-> resp.seq.product_type,
                             material_type |-> resp.seq.material_type,
                             workshop_type |-> resp.seq.workshop_type,
                             workshop |-> workshop_id_seq, product |-> product_id_seq],
                    exc |-> IF up THEN "" ELSE "OperationalError"]
       IN  \E c1 \in {import_product_types(conn, files.product_types)} :
           \E c2 \in {import_material_types(c1, files.material_types)} :
           \E c3 \in {import_workshops(c2, files.workshops)} :
           \E c4 \in {import_products(c3, files.products)} :
           \E end \in {ImportProductWorkshops(c4, files.product_workshops)} :
           /\ product_type' = end.product_type
           /\ material_type' = end.material_type
           /\ workshop_type' = end.workshop_type
           /\ workshop' = end.workshop
           /\ product' = end.product
           /\ product_workshop' = end.product_workshop
           /\ product_id_seq' = end.seq.product
           /\ workshop_id_seq' = end.seq.workshop
           /\ resp' = [resp EXCEPT
                          !.pc = IF end.exc = "" THEN "done" ELSE "failed",
                          !.exc = end.exc,
                          !.files = IF up THEN files ELSE @,
                          !.seq = [product_type |-> end.seq.product_type,
                                   material_type |-> end.seq.material_type,
                                   workshop_type |-> end.seq.workshop_type]]

\* with engine.begin() as conn: the five imports over one connection, in one
\* transaction, which is committed when the block is left and rolled back
\* when an exception leaves it. up is whether the database still answers
\* when the transaction is begun. The sequences keep what they have given.
\* c1 .. c4 are what the connection sees after each import.
main_import(files, up) ==
    /\ resp.op = "main"
    /\ resp.pc = "import"
    /\ LET conn == [product_type |-> product_type, material_type |-> material_type,
                    workshop_type |-> workshop_type, workshop |-> workshop,
                    product |-> product, product_workshop |-> product_workshop,
                    seq |-> [product_type |-> resp.seq.product_type,
                             material_type |-> resp.seq.material_type,
                             workshop_type |-> resp.seq.workshop_type,
                             workshop |-> workshop_id_seq, product |-> product_id_seq],
                    exc |-> IF up THEN "" ELSE "OperationalError"]
       IN  \E c1 \in {import_product_types(conn, files.product_types)} :
           \E c2 \in {import_material_types(c1, files.material_types)} :
           \E c3 \in {import_workshops(c2, files.workshops)} :
           \E c4 \in {import_products(c3, files.products)} :
           \E end \in {ImportProductWorkshops(c4, files.product_workshops)} :
           \E kept \in {IF end.exc = "" THEN end ELSE conn} :
           /\ product_type' = kept.product_type
           /\ material_type' = kept.material_type
           /\ workshop_type' = kept.workshop_type
           /\ workshop' = kept.workshop
           /\ product' = kept.product
           /\ product_workshop' = kept.product_workshop
           /\ product_id_seq' = end.seq.product
           /\ workshop_id_seq' = end.seq.workshop
           /\ resp' = [resp EXCEPT
                          !.pc = IF end.exc = "" THEN "done" ELSE "failed",
                          !.exc = end.exc,
                          !.files = IF up THEN files ELSE @,
                          !.seq = [product_type |-> end.seq.product_type,
                                   material_type |-> end.seq.material_type,
                                   workshop_type |-> end.seq.workshop_type]]

NextLoad ==
    \/ \E ok \in BOOLEAN : main_connect(ok)
    \/ \E files \in LoadFiles, up \in BOOLEAN : main_import(files, up)

SpecLoad == InitLoad /\ [][NextLoad]_vars

-----------------------------------------------------------------------------
(* The views over a store drawn from bounded sets: SpecViews. Three         *)
(* products, two of one type, three workshops, and for every workshop a     *)
(* link of the first product with hours drawn from a few values, or no      *)
(* link. A view writes nothing, so a behaviour makes one request.           *)

ViewProducts ==
    { [id |-> 1, name |-> <<"B", "e", "d">>, article |-> <<"A", "1">>,
       product_type_id |-> 1, material_type_id |-> 1, min_partner_price |-> 10000],
      [id |-> 2, name |-> <<"C", "o", "t">>, article |-> <<"A", "2">>,
       product_type_id |-> 2, material_type_id |-> 2, min_partner_price |-> 20000],
      [id |-> 3, name |-> <<"A", "r", "k">>, article |-> <<"A", "3">>,
       product_type_id |-> 1, material_type_id |-> 2, min_partner_price |-> 5000] }

ViewWorkshops ==
    { [id |-> 1, name |-> <<"S", "a", "w">>, workshop_type_id |-> 1, workers_required |-> 3],
      [id |-> 2, name |-> <<"D", "y", "e">>, workshop_type_id |-> 1, workers_required |-> 2],
      [id |-> 3, name |-> <<"F", "i", "t">>, workshop_type_id |-> 1, workers_required |-> 4] }

\* No link of the product with the workshop, or one with hours of the set.
LinkChoices(product_id, workshop_id, hours) ==
    {{}} \cup {{[product_id |-> product_id, workshop_id |-> workshop_id,
                 production_time_hours |-> h]} : h \in hours}

ViewLinkSets ==
    {a \cup b \cup c \cup d :
        a \in LinkChoices(1, 1, {68, 2}),
        b \in LinkChoices(1, 2, {8, 120, 200}),
        c \in LinkChoices(1, 3, {224, 130, 200}),
        d \in LinkChoices(2, 1, {250})}

InitViews ==
    /\ product_type = ProductTypeRows
    /\ material_type = MaterialTypeRows
    /\ workshop_type = WorkshopTypeRows
    /\ workshop = ViewWorkshops
    /\ product = ViewProducts
    /\ product_workshop \in ViewLinkSets
    /\ product_id_seq = 3
    /\ workshop_id_seq = 3
    /\ resp = NoRequest

NextViews ==
    \/ list_product_cards
    \/ \E id \in {1, 2, MissingId} : ui_product_workshops(id)
    \/ list_product_types
    \/ list_material_types
    \/ list_workshop_types
    \/ list_workshops
    \/ list_products
    \/ \E id \in {1, MissingId} : get_workshop(id)
    \/ \E id \in {1, MissingId} : get_product(id)
    \/ \E id \in {1, MissingId} : get_product_workshops(id)
    \/ \E id \in {1, MissingId} : ui_product_edit(id)
    \/ \E id \in {1, MissingId} : ui_workshop_edit(id)
    \/ \E body \in [product_type_id : {1, 3, MissingId}, material_type_id : {1},
                     quantity : {2, 0},
                     param1 : { <<"1", ".", "5">>, <<"n", "a", "n">> },
                     param2 : { <<"2", ".", "0">> }] :
           calculate_raw_material_endpoint(body)

SpecViews == InitViews /\ [][NextViews]_vars

-----------------------------------------------------------------------------
(* Claims about the raw-material calculator, checked under SpecCalc.       *)

\* The call of the calculator has been made.
Called == resp.op = "calculate_raw_material_amount" /\ resp.outcome # Pending

CallQty == IntOf(resp.quantity)

CallP1 == DecimalFromText(resp.param1)

CallP2 == DecimalFromText(resp.param2)

CallProductType == GetProductType(resp.product_type_id)

CallMaterialType == GetMaterialType(resp.material_type_id)

CallCoeff ==
    DecimalFromScaled((CHOOSE r \in CallProductType : TRUE).coefficient, CoefficientScale)

CallLoss ==
    DecimalFromScaled((CHOOSE r \in CallMaterialType : TRUE).loss_percent, LossScale)

\* A parameter that is a number > 0 (a NaN is not, an infinity is).
IsPositive(t) == t.ok /\ t.d.kind # "nan" /\ ~DecLeZero(t.d)

\* A parameter that is a number <= 0.
IsNonPositive(t) == t.ok /\ t.d.kind # "nan" /\ DecLeZero(t.d)

\* param1 * param2 * coefficient * quantity * (1 + loss_percent), no rounding.
ExactTotal ==
    DecMulExact(
        DecMulExact(DecMulExact(DecMulExact(CallP1.d, CallP2.d), CallCoeff),
                    DecimalFromInt(CallQty.v)),
        DecAddExact(DecimalFromInt(1), CallLoss))

\* Every validation of section 4.2 passes.
AllValid ==
    /\ CallQty.st = "ok" /\ CallQty.v > 0
    /\ IsPositive(CallP1) /\ IsPositive(CallP2)
    /\ CallProductType # {} /\ CallMaterialType # {}
    /\ ~DecLeZero(CallCoeff) /\ ~DecLtZero(CallLoss)
    /\ ~DecLeZero(DecMulExact(DecMulExact(CallP1.d, CallP2.d), CallCoeff))
    /\ ~DecLeZero(ExactTotal)

\* C1: with quantity > 0, finite param1 > 0 and param2 > 0, both types found,
\* coefficient > 0 and loss_percent >= 0, the call returns the ceiling of the
\* exact product param1 * param2 * coefficient * quantity * (1 + loss_percent).
C1_ReturnsExactCeiling ==
    (/\ Called
     /\ resp.quantity.t = "int" /\ resp.quantity.v > 0
     /\ IsPositive(CallP1) /\ CallP1.d.kind = "fin"
     /\ IsPositive(CallP2) /\ CallP2.d.kind = "fin"
     /\ CallProductType # {} /\ CallMaterialType # {}
     /\ ~DecLeZero(CallCoeff) /\ ~DecLtZero(CallLoss))
    => resp.outcome = Return(DecCeilingInt(ExactTotal))

\* C2: with quantity <= 0, or param1 <= 0, or param2 <= 0, or a product type
\* or a material type that does not exist, the call returns the sentinel -1,
\* whatever the other arguments are.
C2_SentinelOnInvalidArgument ==
    (/\ Called
     /\ \/ CallQty.st = "ok" /\ CallQty.v <= 0
        \/ IsNonPositive(CallP1)
        \/ IsNonPositive(CallP2)
        \/ CallProductType = {}
        \/ CallMaterialType = {})
    => resp.outcome = Return(Sentinel)

\* C3: for every input the call returns an integer and never raises.
C3_NeverRaises == Called => resp.outcome.kind = "return"

\* C4: a returned value is >= 1 when every validation passes, and a returned
\* -1 means that a validation failed.
C4_SentinelDistinguishable ==
    (Called /\ resp.outcome.kind = "return")
    => /\ AllValid => (~resp.outcome.value.neg /\ resp.outcome.value.mag # <<>>)
       /\ resp.outcome.value = Sentinel => ~AllValid

\* C4, witness: a call whose validations all pass has returned, here with a
\* total below 1 (0.25 * 1.0 * 1.00 * 1 * 1.0000).
C4_Witness ==
    /\ Called /\ AllValid /\ resp.outcome.kind = "return"
    /\ resp.param1 = <<"0", ".", "2", "5">> /\ resp.param2 = <<"1", ".", "0">>
    /\ resp.quantity = [t |-> "int", v |-> 1]
    /\ resp.product_type_id = 2 /\ resp.material_type_id = 2

-----------------------------------------------------------------------------
(* Claims about the aggregated production time, checked under SpecViews.    *)

\* The ceiling of the exact sum of the hours of a product's links, the hours
\* being in 1/100.
ExactCeilingOfHours(product_id) ==
    0 - ((0 - SumHours(ProductLinks(product_id))) \div 100)

\* C5: for every set of links of a product, the aggregated production time
\* shown for it, in every card of the product-card view and as the total of
\* the per-product workshops page, is the ceiling of the exact decimal sum of
\* the links' production_time_hours; an exact integer sum is not rounded up.
C5_AggregatedTimeIsExactCeiling ==
    /\ resp.op = "list_product_cards" =>
           \A i \in 1..Len(resp.body) :
               resp.body[i].production_time_hours = ExactCeilingOfHours(resp.body[i].id)
    /\ (resp.op = "ui_product_workshops" /\ resp.status = 200) =>
           resp.total_hours = ExactCeilingOfHours(resp.product_id)

\* C10: a product with no links has aggregated production time 0 and is in
\* the product-card view, which answers without an error; the workshops page
\* of such a product totals 0 as well.
C10_NoLinksMeansZeroAndListed ==
    /\ resp.op = "list_product_cards" =>
           /\ resp.status = 200
           /\ \A p \in product :
                  ProductLinks(p.id) = {} =>
                      \E i \in 1..Len(resp.body) :
                          /\ resp.body[i].id = p.id
                          /\ resp.body[i].production_time_hours = 0
    /\ (resp.op = "ui_product_workshops" /\ resp.status = 200
            /\ ProductLinks(resp.product_id) = {}) => resp.total_hours = 0

\* The card view has answered for a store in which one product has links and
\* another has none.
C10_Witness ==
    /\ resp.op = "list_product_cards"
    /\ \E p \in product : ProductLinks(p.id) = {}
    /\ \E p \in product : ProductLinks(p.id) # {}
    /\ Len(resp.body) = Cardinality(product)

-----------------------------------------------------------------------------
(* Claims about the requests that write, checked under Spec and, where the  *)
(* product form is concerned, under SpecForms.                              *)

ArticleTaken(article) == \E p \in product : p.article = article

\* C6: deleting a product that has links, by delete_product or by
\* ui_product_delete, succeeds and leaves neither the product nor any link
\* that refers to it.
C6_DeleteProductRemovesLinks ==
    [][resp'.op \in {"delete_product", "ui_product_delete"} =>
           \A id \in IdInputs :
               ((delete_product(id) \/ ui_product_delete(id))
                    /\ GetProduct(id) # {} /\ ProductLinks(id) # {})
               => /\ resp'.status \in {204, 303}
                  /\ GetProduct(id)' = {}
                  /\ ProductLinks(id)' = {}]_vars

\* The new-product forms whose fields pass validation.
ValidNewProductForms ==
    {form \in ProductFormInputs :
        /\ Strip(form.id) = <<>>
        /\ ProductFieldErrors(Strip(form.name), Strip(form.article),
               parse_positive_int(form.product_type_id),
               parse_positive_int(form.material_type_id),
               parse_price_ru(form.min_partner_price)) = {}}

\* C7: a request that creates a product (create_product, or the new-product
\* form with fields that pass validation) with the article of an existing
\* product fails with the duplicate-entity error, and every table is after the
\* request what it was before it.
C7_DuplicateArticleRejected ==
    [][/\ resp'.op = "create_product" =>
              \A prod \in ProductCreateInputs :
                  (ArticleTaken(prod.article) /\ create_product(prod))
                  => /\ resp'.status = 400
                     /\ resp'.detail = "Product with this article or name already exists"
                     /\ UNCHANGED Tables
       /\ resp'.op = "ui_product_save" =>
              \A form \in ValidNewProductForms :
                  (ArticleTaken(Strip(form.article)) /\ ui_product_save(form))
                  => /\ resp'.status = 400
                     /\ resp'.detail = "__all__"
                     /\ UNCHANGED Tables]_vars

\* create_product has refused a product whose article, and nothing else, was
\* taken.
C7_Witness ==
    /\ resp.op = "create_product"
    /\ resp.status = 400
    /\ resp.violated = {"product_article_key"}
    /\ product # {}

\* The name is that of a row other than the row with this id.
ProductNameTakenByOther(id, name) == \E p \in product : p.id # id /\ p.name = name

WorkshopNameTakenByOther(id, name) == \E w \in workshop : w.id # id /\ w.name = name

\* C8: every create or update that would violate a uniqueness constraint, the
\* renaming updates update_product and update_workshop included, is answered
\* with a duplicate-entity client error (a 400), and no table is changed.
C8_UniquenessViolationIsClientError ==
    [][/\ resp'.op = "create_product" =>
              \A prod \in ProductCreateInputs :
                  (create_product(prod)
                       /\ (ArticleTaken(prod.article) \/ ProductNameTakenByOther(0, prod.name)))
                  => resp'.status = 400 /\ UNCHANGED Tables
       /\ resp'.op = "create_workshop" =>
              \A ws \in WorkshopCreateInputs :
                  (create_workshop(ws) /\ WorkshopNameTakenByOther(0, ws.name))
                  => resp'.status = 400 /\ UNCHANGED Tables
       /\ resp'.op = "add_product_workshop" =>
              \A id \in IdInputs, body \in LinkCreateInputs :
                  (add_product_workshop(id, body) /\ GetLink(id, body.workshop_id) # {})
                  => resp'.status = 400 /\ UNCHANGED Tables
       /\ resp'.op = "update_product" =>
              \A id \in IdInputs, upd \in ProductUpdateInputs :
                  (update_product(id, upd) /\ GetProduct(id) # {}
                       /\ "name" \in DOMAIN upd /\ ProductNameTakenByOther(id, upd.name))
                  => resp'.status = 400 /\ UNCHANGED Tables
       /\ resp'.op = "update_workshop" =>
              \A id \in IdInputs, upd \in WorkshopUpdateInputs :
                  (update_workshop(id, upd) /\ GetWorkshop(id) # {}
                       /\ "name" \in DOMAIN upd /\ WorkshopNameTakenByOther(id, upd.name))
                  => resp'.status = 400 /\ UNCHANGED Tables]_vars

\* C9: a create or update that refers to an entity that does not exist (a
\* product's product type or material type, a workshop's workshop type, a
\* link's product or workshop) is answered with a not-found error, a 404, and
\* no table is changed.
C9_MissingReferenceIsNotFound ==
    [][/\ resp'.op = "create_product" =>
              \A prod \in ProductCreateInputs :
                  (create_product(prod)
                       /\ (GetProductType(prod.product_type_id) = {}
                             \/ GetMaterialType(prod.material_type_id) = {}))
                  => resp'.status = 404 /\ UNCHANGED Tables
       /\ resp'.op = "create_workshop" =>
              \A ws \in WorkshopCreateInputs :
                  (create_workshop(ws) /\ GetWorkshopType(ws.workshop_type_id) = {})
                  => resp'.status = 404 /\ UNCHANGED Tables
       /\ resp'.op = "add_product_workshop" =>
              \A id \in IdInputs, body \in LinkCreateInputs :
                  (add_product_workshop(id, body)
                       /\ (GetProduct(id) = {} \/ GetWorkshop(body.workshop_id) = {}))
                  => resp'.status = 404 /\ UNCHANGED Tables
       /\ resp'.op = "update_product" =>
              \A id \in IdInputs, upd \in ProductUpdateInputs :
                  (update_product(id, upd) /\ GetProduct(id) # {}
                       /\ "product_type_id" \in DOMAIN upd
                       /\ GetProductType(upd.product_type_id) = {})
                  => resp'.status = 404 /\ UNCHANGED Tables
       /\ resp'.op = "update_workshop" =>
              \A id \in IdInputs, upd \in WorkshopUpdateInputs :
                  (update_workshop(id, upd) /\ GetWorkshop(id) # {}
                       /\ "workshop_type_id" \in DOMAIN upd
                       /\ GetWorkshopType(upd.workshop_type_id) = {})
                  => resp'.status = 404 /\ UNCHANGED Tables]_vars

-----------------------------------------------------------------------------
(* Claims about the reachable stores, checked under Spec.                   *)

\* The aggregated production time of a product, as its card gives it.
AggregatedTime(p) == ProductCard(p).production_time_hours

\* C11: in every store reachable by the create, update and delete requests,
\* the aggregated production time of every product is a non-negative integer.
C11_AggregatedTimeNonNegative ==
    \A p \in product : AggregatedTime(p) \in Nat

-----------------------------------------------------------------------------
(* Claims about the views, checked under SpecViews.                         *)

\* The card at i is placed before the card at j by type name, then by name.
CardsInOrder(body, i, j) ==
    \/ TextLess(body[i].product_type, body[j].product_type)
    \/ /\ body[i].product_type = body[j].product_type
       /\ TextLess(body[i].name, body[j].name)

\* C12: the product-card view returns exactly one card for every product of
\* the store, however many links the product has, and no other card; the
\* cards are ordered by product-type name and, within a type name, by product
\* name.
C12_OneCardPerProductInOrder ==
    resp.op = "list_product_cards" =>
        /\ \A p \in product :
               Cardinality({i \in 1..Len(resp.body) : resp.body[i].id = p.id}) = 1
        /\ \A i \in 1..Len(resp.body) : \E p \in product : resp.body[i].id = p.id
        /\ \A i \in 1..Len(resp.body), j \in 1..Len(resp.body) :
               i < j => CardsInOrder(resp.body, i, j)

\* The card view has answered for a store in which a product has three links
\* and two products are of one type.
C12_Witness ==
    /\ resp.op = "list_product_cards"
    /\ \E p \in product : Cardinality(ProductLinks(p.id)) = 3
    /\ \E i \in 1..Len(resp.body), j \in 1..Len(resp.body) :
           i < j /\ resp.body[i].product_type = resp.body[j].product_type
    /\ \E i \in 1..Len(resp.body), j \in 1..Len(resp.body) :
           i < j /\ resp.body[i].product_type # resp.body[j].product_type

-----------------------------------------------------------------------------
(* Further claims about the calculator, checked under SpecCalc.             *)

\* C17: the call returns the sentinel -1 whenever the coefficient of the
\* product type found is <= 0 or the loss_percent of the material type found
\* is < 0, whatever quantity, param1 and param2 are, valid ones included.
C17_SentinelOnBadTypeData ==
    (/\ Called
     /\ CallProductType # {} /\ CallMaterialType # {}
     /\ DecLeZero(CallCoeff) \/ DecLtZero(CallLoss))
    => resp.outcome = Return(Sentinel)

-----------------------------------------------------------------------------
(* Claims about the forms, checked under SpecForms.                         *)

\* A field of the product form fails validation: a blank name or article, a
\* type id that is no positive integer, a price that is blank, malformed or
\* negative.
ProductFormInvalid(form) ==
    \/ Strip(form.name) = <<>>
    \/ Strip(form.article) = <<>>
    \/ parse_positive_int(form.product_type_id).st # "ok"
    \/ parse_positive_int(form.material_type_id).st # "ok"
    \/ parse_price_ru(form.min_partner_price).st # "ok"

\* A field of the workshop form fails validation: a blank name, a type id or
\* a worker count that is no positive integer.
WorkshopFormInvalid(form) ==
    \/ Strip(form.name) = <<>>
    \/ parse_positive_int(form.workshop_type_id).st # "ok"
    \/ parse_positive_int(form.workers_required).st # "ok"

InvalidProductForms == {form \in ProductFormInputs : ProductFormInvalid(form)}

InvalidWorkshopForms == {form \in WorkshopFormInputs : WorkshopFormInvalid(form)}

\* C14: a form save (ui_product_save, ui_workshop_save) with a field that
\* fails validation attempts no write, for a new row and for an edit alike:
\* every table, and the id sequences an insert would advance, are after the
\* request what they were before it. (A step of a save either changes none
\* of them or is the save of no form with an invalid field.)
C14_InvalidFormWritesNothing ==
    [][/\ resp'.op = "ui_product_save" =>
              \/ UNCHANGED <<Tables, product_id_seq, workshop_id_seq>>
              \/ \A form \in InvalidProductForms : ~ui_product_save(form)
       /\ resp'.op = "ui_workshop_save" =>
              \/ UNCHANGED <<Tables, product_id_seq, workshop_id_seq>>
              \/ \A form \in InvalidWorkshopForms : ~ui_workshop_save(form)]_vars

\* The edit form of an existing workshop has been refused for its fields
\* while a product is in the store as well.
C14_Witness ==
    /\ resp.op = "ui_workshop_save"
    /\ resp.status = 400
    /\ resp.detail = "field_errors"
    /\ resp.is_edit
    /\ GetWorkshop(1) # {}
    /\ product # {}

-----------------------------------------------------------------------------
(* Claims about the read endpoints, checked under SpecViews.                *)

\* C15: every read endpoint that returns a list of reference data or of
\* entities (product types, material types, workshop types, workshops,
\* products) returns its records in alphabetical order of their names.
C15_ListsOrderedByName ==
    resp.op \in {"list_product_types", "list_material_types", "list_workshop_types",
                 "list_workshops", "list_products"} =>
        \A i \in 1..Len(resp.body), j \in 1..Len(resp.body) :
            i < j => TextLess(resp.body[i].name, resp.body[j].name)

\* The tables and the id sequences.
Store == <<Tables, product_id_seq, workshop_id_seq>>

\* C16: a request for a product, a workshop, or the workshops and total time
\* of a product by an id that does not exist is answered with a not-found
\* outcome, 404 by the JSON API and a redirect with the status
\* product_not_found or workshop_not_found by the pages, never with an empty
\* list or a total of zero hours, and it changes nothing in the store.
C16_MissingIdIsNotFound ==
    [][\A id \in IdInputs :
           /\ (GetProduct(id) = {} /\ get_product(id))
                  => /\ resp'.status = 404 /\ resp'.detail = "Product not found"
                     /\ UNCHANGED Store
           /\ (GetWorkshop(id) = {} /\ get_workshop(id))
                  => /\ resp'.status = 404 /\ resp'.detail = "Workshop not found"
                     /\ UNCHANGED Store
           /\ (GetProduct(id) = {} /\ get_product_workshops(id))
                  => /\ resp'.status = 404 /\ resp'.detail = "Product not found"
                     /\ UNCHANGED Store
           /\ (GetProduct(id) = {} /\ (ui_product_workshops(id) \/ ui_product_edit(id)))
                  => /\ resp'.status = 303 /\ resp'.detail = "product_not_found"
                     /\ UNCHANGED Store
           /\ (GetWorkshop(id) = {} /\ ui_workshop_edit(id))
                  => /\ resp'.status = 303 /\ resp'.detail = "workshop_not_found"
                     /\ UNCHANGED Store]_vars

\* The workshops of a product that does not exist have been asked for while
\* the store holds products and links.
C16_Witness ==
    /\ resp.op = "get_product_workshops"
    /\ resp.status = 404
    /\ product # {}
    /\ product_workshop # {}

-----------------------------------------------------------------------------
(* Claims about concurrent requests, checked under SpecConc.                *)

\* No two rows of a table hold the same value of a unique key.
UniqueKeysHold ==
    /\ \A p \in product, q \in product :
           p # q => p.name # q.name /\ p.article # q.article
    /\ \A w \in workshop, v \in workshop : w # v => w.name # v.name
    /\ \A l \in product_workshop, k \in product_workshop :
           l # k => l.product_id # k.product_id \/ l.workshop_id # k.workshop_id

\* The message of the duplicate-key error of each kind of request.
DuplicateDetail(kind) ==
    CASE kind = "create_product"  -> "Product with this article or name already exists"
      [] kind = "create_workshop" -> "Workshop with this name already exists"
      [] OTHER                    -> "This workshop is already linked to the product"

\* The two requests create rows of one table with a unique key in common.
RequestsCollide ==
    /\ resp.req[1].kind = resp.req[2].kind
    /\ ConcSameKey(resp.req[1].kind, resp.req[1].body, resp.req[2].body)

\* C18: of two requests that create, at the same time, entities with the
\* same unique key (products with the same article or name, workshops with
\* the same name, links of the same product and workshop), at most one
\* commits; one that does not is answered with the duplicate-key error; and
\* the store never holds two rows with that key.
C18_ConcurrentDuplicatesRejected ==
    resp.op = "concurrent" =>
        /\ UniqueKeysHold
        /\ (RequestsCollide /\ resp.req[1].pc = "done" /\ resp.req[2].pc = "done") =>
               /\ resp.req[1].status # 201 \/ resp.req[2].status # 201
               /\ \A i \in {1, 2} :
                      resp.req[i].status # 201 =>
                          /\ resp.req[i].status = 400
                          /\ resp.req[i].detail = DuplicateDetail(resp.req[i].kind)

\* Two requests for a link of the same product and workshop are done: the
\* first has committed its row, the second was refused.
C18_Witness ==
    /\ resp.op = "concurrent"
    /\ RequestsCollide
    /\ resp.req[1].pc = "done" /\ resp.req[2].pc = "done"
    /\ resp.req[1].status = 201 /\ resp.req[2].status = 400
    /\ resp.req[1].kind = "add_product_workshop"
    /\ Cardinality(product_workshop) = 1

-----------------------------------------------------------------------------
(* Claims about the links of the reachable stores, checked under Spec.      *)

\* No two rows of product_workshop are of the same product and workshop.
UniqueLinkPairs ==
    \A l \in product_workshop, k \in product_workshop :
        l # k => l.product_id # k.product_id \/ l.workshop_id # k.workshop_id

\* C19: in every store the requests and the import of links reach, no two
\* product_workshop rows are of the same product and workshop; and
\* add_product_workshop for a pair already linked fails with the duplicate
\* error and leaves the existing link, its production_time_hours included,
\* as it was.
C19_LinkPairsUnique ==
    [][/\ UniqueLinkPairs'
       /\ resp'.op = "add_product_workshop" =>
              \A id \in IdInputs, body \in LinkCreateInputs :
                  (GetLink(id, body.workshop_id) # {} /\ add_product_workshop(id, body))
                  => /\ resp'.status = 400
                     /\ resp'.detail = "This workshop is already linked to the product"
                     /\ GetLink(id, body.workshop_id)' = GetLink(id, body.workshop_id)
                     /\ UNCHANGED product_workshop]_vars

\* A second link of a linked pair has been refused, and the link is there.
C19_Witness ==
    /\ resp.op = "add_product_workshop"
    /\ resp.status = 400
    /\ resp.violated = {"uq_product_workshop"}
    /\ GetLink(1, 1) # {}

\* C20: referential integrity holds in every reachable store: every product
\* refers to a product type and a material type that exist, every workshop to
\* a workshop type that exists, every link to a product and a workshop that
\* exist; in particular a delete of a workshop that has links
\* (delete_workshop, ui_workshop_delete) leaves no link that refers to a
\* workshop that is gone.
C20_ReferentialIntegrity ==
    /\ \A p \in product :
           /\ GetProductType(p.product_type_id) # {}
           /\ GetMaterialType(p.material_type_id) # {}
    /\ \A w \in workshop : GetWorkshopType(w.workshop_type_id) # {}
    /\ \A l \in product_workshop :
           /\ GetProduct(l.product_id) # {}
           /\ GetWorkshop(l.workshop_id) # {}

\* The delete of a workshop that has links has been asked for, by the page
\* of the workshops, and the links are in the store.
C20_Witness ==
    /\ resp.op = "ui_workshop_delete"
    /\ resp.status = 500
    /\ WorkshopLinks(1) # {}
    /\ GetWorkshop(1) # {}

-----------------------------------------------------------------------------
(* Claims about the loader, checked under SpecLoad.                         *)

\* C21: the five imports of a run of the loader are one atomic unit: when
\* any of them fails (a row that names an unknown product type, material,
\* product or workshop, say), no row the run has written before the failure
\* remains: every table is what it was before the run.
C21_ImportIsAtomic ==
    [][(resp.pc = "import" /\ resp'.exc # "") => UNCHANGED Tables]_vars

\* A first run has written a product type, as the sequence shows, has then
\* met a name no table holds, and has left the tables empty.
C21_Witness ==
    /\ resp.pc = "failed"
    /\ resp.exc = "NoResultFound"
    /\ resp.run = 1
    /\ resp.seq.product_type > 0
    /\ product_type = {}

\* C22: a run of the loader probes the database at most 10 times, every
\* failed probe counted; the import follows the first probe that succeeds,
\* with no probe after it; when all 10 probes fail the run ends with a
\* failure; and no probe writes to the store. The count that only grows and
\* stays below 10 while the loop goes on is why the loop ends.
C22_ProbesBounded ==
    [][/\ resp'.attempt <= Attempts
       /\ main_connect(TRUE) => resp'.pc = "import"
       /\ resp.pc = "import" =>
              resp'.attempt = resp.attempt /\ resp'.pc \in {"done", "failed"}
       /\ (resp.pc = "probe" /\ resp'.pc = "probe") =>
              resp'.attempt = resp.attempt + 1 /\ resp'.attempt < Attempts
       /\ (resp.pc = "probe" /\ resp'.pc = "failed") =>
              resp'.attempt = Attempts /\ resp'.exc = "RuntimeError"
       /\ resp.pc # "import" =>
              UNCHANGED <<Tables, product_id_seq, workshop_id_seq>>]_vars

\* A run that has given up after ten probes, in a store an earlier run has
\* filled.
C22_Witness ==
    /\ resp.pc = "failed"
    /\ resp.exc = "RuntimeError"
    /\ resp.attempt = Attempts
    /\ product # {}

\* Every row of the sheets the last import read is in the store, once: its
\* type, material, workshop type and workshop by name, its product by
\* article, with the name of the last row of that article, and its link by
\* the pair of the product and the workshop it names.
LoadedRowsPresent ==
    LET One(rows) == Cardinality(rows) = 1
        f == resp.files
    IN  /\ \A k \in DOMAIN f.product_types :
               One({r \in product_type : r.name = Strip(f.product_types[k].name)})
        /\ \A k \in DOMAIN f.material_types :
               One({r \in material_type : r.name = Strip(f.material_types[k].name)})
        /\ \A k \in DOMAIN f.workshops :
               /\ One({r \in workshop_type : r.name = Strip(f.workshops[k].workshop_type)})
               /\ One({r \in workshop : r.name = Strip(f.workshops[k].workshop_name)})
        /\ \A k \in DOMAIN f.products :
               /\ One({r \in product : r.article = Strip(f.products[k].article)})
               /\ (\A j \in DOMAIN f.products :
                       j > k => Strip(f.products[j].article) # Strip(f.products[k].article))
                  => \E r \in product : /\ r.article = Strip(f.products[k].article)
                                        /\ r.name = Strip(f.products[k].name)
        /\ \A k \in DOMAIN f.product_workshops :
               One({l \in product_workshop :
                       /\ \E r \in product :
                              /\ r.id = l.product_id
                              /\ r.name = Strip(f.product_workshops[k].product_name)
                       /\ \E w \in workshop :
                              /\ w.id = l.workshop_id
                              /\ w.name = Strip(f.product_workshops[k].workshop_name)})

\* C23: the loader upserts by natural key. An import whose sheets name only
\* types, materials, products and workshops there are, with cells that can
\* be read, is not refused: after it every row of the sheets is in the
\* store once, a row whose key was there updated and a row with a new key
\* inserted; and an import of the sheets the import before it read leaves
\* the tables as that import left them.
C23_UpsertByNaturalKey ==
    [][resp.pc = "import" =>
          /\ resp'.exc \in {"", "IntegrityError"} => LoadedRowsPresent'
          /\ resp'.files = resp.files => UNCHANGED Tables]_vars

-----------------------------------------------------------------------------
(* Claims about the computed views, checked under SpecViews.                *)

\* C24: the computed views are read-only: a call of the raw-material
\* calculation through its endpoint, whether it yields an amount, the
\* sentinel or an error, and a call of the product-card view leave every
\* table and both id sequences unchanged.
C24_ViewsReadOnly ==
    [][resp'.op \in {"calculate_raw_material_endpoint", "list_product_cards"}
       => UNCHANGED <<Tables, product_id_seq, workshop_id_seq>>]_vars

\* The calculation has answered with the sentinel, over a store that has
\* links with hours that are not whole.
C24_Witness ==
    /\ resp.op = "calculate_raw_material_endpoint"
    /\ resp.status = 200
    /\ resp.body = Sentinel
    /\ \E l \in product_workshop : l.production_time_hours % 100 # 0

====
